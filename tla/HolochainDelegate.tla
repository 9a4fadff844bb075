------------------------- MODULE HolochainDelegate -------------------------
(***************************************************************************)
(* HolochainLanguageDelegateImpl over a conductor: the DNAs languages      *)
(* register, the cells their nicks stand for, the one signer all calls     *)
(* use, and what each cell's capability grants it.  The languages pass no  *)
(* signer of their own.                                                    *)
(*                                                                         *)
(* A signer is named for the cell whose credentials made it.  Over the     *)
(* extension of the browser cells need no grant and have one agent key.    *)
(***************************************************************************)
EXTENDS Naturals, Sequences

CONSTANTS
  Registrations,  \* calls of registerDNAs(): 1..n
  Nicks,          \* nicks of DNAs
  None

VARIABLES
  hwc,         \* is the conductor that of the extension?
  regs,        \* each registration: how far it has come, and the nicks it has left
  nickToCell,  \* nickToCellId
  registered,  \* registeredCellIds
  signer,      \* defaultSigner
  grants,      \* at the conductor: the cells and who may call them
  relays,      \* the registrations whose callback the conductor has
  relayed,     \* the registrations whose callback got the last signal
  refused,     \* history: cells whose grant failed
  crossed      \* history: were credentials made for two cells at a time?

delegateVars == <<hwc, regs, nickToCell, registered, signer, grants, relays, relayed,
                  refused, crossed>>

DnaLists == {<<n>> : n \in Nicks} \cup {<<n, o>> : n \in Nicks, o \in Nicks}

(* generateAgentPubKey() makes a key for each registration, the extension  *)
(* has one.                                                                *)
CellOf(r, nick) == <<IF hwc THEN 0 ELSE r, nick>>

Init ==
  /\ hwc \in BOOLEAN
  /\ regs = [r \in Registrations |-> [at |-> "none", left |-> <<>>]]
  /\ nickToCell = [n \in Nicks |-> None]
  /\ registered = {}
  /\ signer = None
  /\ grants = {}
  /\ relays = {}
  /\ relayed = {}
  /\ refused = {}
  /\ crossed = FALSE

Goes(r, at) == regs' = [regs EXCEPT ![r].at = at]

RegisterDNAs(r) ==
  /\ regs[r].at = "none"
  /\ \A q \in Registrations : q < r => regs[q].at # "none"
  /\ \E dnas \in DnaLists : regs' = [regs EXCEPT ![r] = [at |-> "key", left |-> dnas]]
  /\ UNCHANGED <<hwc, nickToCell, registered, signer, grants, relays, relayed, refused, crossed>>

GenerateAgentPubKey(r) ==
  /\ regs[r].at = "key"
  /\ Goes(r, "install")
  /\ UNCHANGED <<hwc, nickToCell, registered, signer, grants, relays, relayed, refused, crossed>>

Cell(r) == CellOf(r, Head(regs[r].left))

InstallApp(r) ==
  /\ regs[r].at = "install"
  /\ nickToCell' = [nickToCell EXCEPT ![Head(regs[r].left)] = Cell(r)]
  /\ registered' = registered \cup {Cell(r)}
  /\ Goes(r, IF signer # None THEN "grant" ELSE "create")
  /\ crossed' = (crossed \/ \E q \in Registrations : regs[q].at = "create")
  /\ UNCHANGED <<hwc, signer, grants, relays, relayed, refused>>

(* The loop goes on, or ends and leaves the callback with the conductor. *)
Continues(r) ==
  IF Len(regs[r].left) > 1
  THEN /\ regs' = [regs EXCEPT ![r] = [at |-> "install", left |-> Tail(@.left)]]
       /\ UNCHANGED relays
  ELSE /\ Goes(r, "done")
       /\ relays' = relays \cup {r}

(* Mutant: the signer is granted to the cell of its credentials alone. *)
GrantCapability_Skipped(r) ==
  /\ regs[r].at = "grant"
  /\ Continues(r)
  /\ UNCHANGED <<hwc, nickToCell, registered, signer, grants, relayed, refused, crossed>>

GrantCapability(r) ==
  /\ regs[r].at = "grant"
  /\ grants' = IF hwc THEN grants ELSE grants \cup {<<Cell(r), signer>>}
  /\ Continues(r)
  /\ UNCHANGED <<hwc, nickToCell, registered, signer, relayed, refused, crossed>>

CreateSigningCredentials(r) ==
  /\ regs[r].at = "create"
  /\ grants' = IF hwc THEN grants ELSE grants \cup {<<Cell(r), Cell(r)>>}
  /\ signer' = Cell(r)
  /\ Continues(r)
  /\ UNCHANGED <<hwc, nickToCell, registered, relayed, refused, crossed>>

(* A call to the conductor rejects, and what was done stays. *)
Fails(r) ==
  /\ regs[r].at \in {"key", "install", "grant", "create"}
  /\ Goes(r, "failed")
  /\ refused' = IF regs[r].at \in {"grant", "create"} THEN refused \cup {Cell(r)} ELSE refused
  /\ UNCHANGED <<hwc, nickToCell, registered, signer, grants, relays, relayed, crossed>>

(* Every callback gets the signals of every cell of the delegate. *)
Signal ==
  /\ \E c \in registered \cup {None} : relayed' = IF c \in registered THEN relays ELSE {}
  /\ UNCHANGED <<hwc, regs, nickToCell, registered, signer, grants, relays, refused, crossed>>

Next ==
  \/ \E r \in Registrations :
       \/ RegisterDNAs(r) \/ GenerateAgentPubKey(r) \/ InstallApp(r)
       \/ GrantCapability(r) \/ CreateSigningCredentials(r) \/ Fails(r)
  \/ Signal

-----------------------------------------------------------------------------
(* call() throws for a nick with no cell, or with no signer; the cell that *)
(* it does reach runs the function if it was granted to the signer.        *)
CallRuns(nick) ==
  /\ nickToCell[nick] # None
  /\ signer # None
  /\ hwc \/ <<nickToCell[nick], signer>> \in grants

Granting(c) ==
  \E r \in Registrations : regs[r].at \in {"grant", "create"} /\ Cell(r) = c

(***************************************************************************)
(* Whichever registrations failed midway and whichever overlapped, a call  *)
(* to a cell that is not waiting for its grant and was not refused one is  *)
(* made with a signer that the cell was granted to: unless credentials     *)
(* were made for two cells at a time.                                      *)
(***************************************************************************)
CallsAuthorised ==
  ~crossed =>
    \A n \in Nicks :
      nickToCell[n] # None /\ nickToCell[n] \notin refused /\ ~Granting(nickToCell[n])
        => CallRuns(n)
=============================================================================
