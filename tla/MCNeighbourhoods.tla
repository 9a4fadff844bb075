-------------------------- MODULE MCNeighbourhoods --------------------------
(***************************************************************************)
(* The language manager with its executor, or the neighbourhood manager    *)
(* over fewer calls of the language manager, and no shutdown.              *)
(***************************************************************************)
EXTENDS Neighbourhoods

CONSTANTS FewAddresses, FewCalls

VARIABLE focus
mvars == <<vars, focus>>

MInit == Init /\ focus \in {"languages", "neighbourhoods"}

Few ==
  /\ <<executor', settings'>> = <<executor, settings>>
  /\ \A c \in Calls : calls'[c].addr \in FewAddresses \cup {None}
  /\ \A c \in Calls \ FewCalls : calls'[c].at = "none"
  /\ \A s \in Shares : shares'[s].lang \in FewAddresses \cup {None}

MNext ==
  /\ \/ focus = "languages" /\ LNext /\ UNCHANGED shareVars
     \/ focus = "neighbourhoods" /\ Next /\ Few
  /\ UNCHANGED focus

MSpec == MInit /\ [][MNext]_mvars
=============================================================================
