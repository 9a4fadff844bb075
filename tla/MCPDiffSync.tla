---------------------------- MODULE MCPDiffSync ----------------------------
(***************************************************************************)
(* PDiffSync with one commit of each of two agents.  The first is tried    *)
(* twice, so that it may be made twice.                                    *)
(***************************************************************************)
EXTENDS PDiffSync
CONSTANTS c1, c2

MCAuthor == (c1 :> 1) @@ (c2 :> 2)
MCMaxAttempts == (c1 :> 2) @@ (c2 :> 1)
=============================================================================
