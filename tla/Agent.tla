-------------------------------- MODULE Agent --------------------------------
(***************************************************************************)
(* The agent service with its wallet, and the capability service that      *)
(* signs tokens with the agent's key.  A page that is loaded again has the *)
(* wallet and nothing else.                                                *)
(***************************************************************************)
EXTENDS Naturals

CONSTANTS
  Calls,        \* of generate, unlock and generateJwt: 1..n
  Passphrases,
  Requests,     \* of capabilities: 1..n
  None

VARIABLES
  state,        \* "Uninitialized", "Locked", "Unlocked"
  did, key,     \* the key pair each of the two is of
  wallet,       \* the key pair and the passphrase in the wallet store
  calls,        \* each call, and how far it has come
  pending,      \* the requests that wait for a token
  granted,      \* the requests with a token
  mishap,       \* history: calls overlapped, or the wallet refused a save
  hurried,      \* history: the requests two tokens were asked for at a time
  revoked       \* history: the requests whose token was revoked

agentVars == <<state, did, key, wallet, calls, mishap>>
capabilityVars == <<pending, granted, hurried, revoked>>

(* A key pair is known by the call that made it. *)
NoCall == [op |-> "none", arg |-> None, at |-> "none"]
NoWallet == [pair |-> None, passphrase |-> None]

Fresh ==
  /\ state = "Uninitialized"
  /\ did = None
  /\ key = None

Init ==
  /\ Fresh
  /\ wallet = NoWallet
  /\ calls = [c \in Calls |-> NoCall]
  /\ pending = {}
  /\ granted = {}
  /\ mishap = FALSE
  /\ hurried = {}
  /\ revoked = {}

UnderWay == {c \in Calls : calls[c].at = "waits"}

Calling(c, op, arg) ==
  /\ calls[c].at = "none"
  /\ \A d \in Calls : d < c => calls[d].at # "none"
  /\ calls' = [calls EXCEPT ![c] = [op |-> op, arg |-> arg, at |-> "waits"]]

Ends(c) == calls' = [calls EXCEPT ![c].at = "done"]

Waits(c, op) == calls[c].at = "waits" /\ calls[c].op = op

AgentCalls == {c \in UnderWay : calls[c].op # "jwt"}

(* The did and the key are the new ones before the wallet is saved. *)
Generate(c, passphrase) ==
  /\ Calling(c, "generate", passphrase)
  /\ did' = c
  /\ key' = c
  /\ mishap' = (mishap \/ AgentCalls # {})
  /\ UNCHANGED <<state, wallet, capabilityVars>>

(* The record is the pair encrypted with a key that the passphrase gives;  *)
(* there is one record, and a save replaces it.                            *)
Saves(c) == wallet' = [pair |-> c, passphrase |-> calls[c].arg]

(* Mutant: a wallet that is there is not saved again. *)
Generated_SavesOnce(c) ==
  /\ Waits(c, "generate")
  /\ Ends(c)
  /\ IF wallet = NoWallet THEN Saves(c) ELSE UNCHANGED wallet
  /\ state' = "Unlocked"
  /\ UNCHANGED <<did, key, mishap, capabilityVars>>

Generated(c) ==
  /\ Waits(c, "generate")
  /\ Ends(c)
  /\ Saves(c)
  /\ state' = "Unlocked"
  /\ UNCHANGED <<did, key, mishap, capabilityVars>>

SaveFails(c) ==
  /\ Waits(c, "generate")
  /\ Ends(c)
  /\ mishap' = TRUE
  /\ UNCHANGED <<state, did, key, wallet, capabilityVars>>

Lock ==
  /\ state = "Unlocked"
  /\ state' = "Locked"
  /\ key' = None
  /\ mishap' = (mishap \/ AgentCalls # {})
  /\ UNCHANGED <<did, wallet, calls, capabilityVars>>

Unlock(c, passphrase) ==
  /\ state # "Uninitialized"
  /\ Calling(c, "unlock", passphrase)
  /\ mishap' = (mishap \/ AgentCalls # {})
  /\ UNCHANGED <<state, did, key, wallet, capabilityVars>>

(* What the passphrase decrypts. *)
Loads(passphrase) ==
  IF wallet.passphrase = passphrase THEN wallet.pair ELSE None

Unlocked(c) ==
  /\ Waits(c, "unlock")
  /\ Ends(c)
  /\ Loads(calls[c].arg) # None
  /\ key' = Loads(calls[c].arg)
  /\ did' = Loads(calls[c].arg)
  /\ state' = "Unlocked"
  /\ UNCHANGED <<wallet, mishap, capabilityVars>>

UnlockFails(c) ==
  /\ Waits(c, "unlock")
  /\ Ends(c)
  /\ UNCHANGED <<state, did, key, wallet, mishap, capabilityVars>>

(* Of what was under way, a save may have reached the wallet. *)
Reload ==
  /\ state' = "Uninitialized"
  /\ did' = None
  /\ key' = None
  /\ calls' = [c \in Calls |-> IF c \in UnderWay THEN [calls[c] EXCEPT !.at = "done"]
                               ELSE calls[c]]
  /\ wallet' \in {wallet} \cup
       {[pair |-> c, passphrase |-> calls[c].arg] : c \in {d \in UnderWay : calls[d].op = "generate"}}
  /\ pending' = {}
  /\ granted' = {}
  /\ UNCHANGED <<mishap, hurried, revoked>>

(* A signature over the data and its time, of the key of the moment, under *)
(* the did of the moment.                                                  *)
SignedExpression == [author |-> did, proofKey |-> did, signedWith |-> key]

(* The public key is taken from the did in the proof. *)
Verifies(expr) == expr.proofKey # None /\ expr.signedWith = expr.proofKey

(* What signLink of the factory puts on a link: no signature at all unless *)
(* the agent is unlocked; with the status Unlocked and no key it throws.   *)
Signature ==
  IF state = "Unlocked" THEN SignedExpression
  ELSE [author |-> did, proofKey |-> None, signedWith |-> None]

-----------------------------------------------------------------------------
RequestCapability(r) ==
  /\ r \notin pending \cup granted \cup revoked
  /\ pending' = pending \cup {r}
  /\ UNCHANGED <<agentVars, granted, hurried, revoked>>

Generating(r) == {c \in UnderWay : calls[c].op = "jwt" /\ calls[c].arg = r}

(* The request, the code and the key are checked before the signature. *)
GenerateJwt(c, r) ==
  /\ r \in pending
  /\ did # None
  /\ key # None
  /\ Calling(c, "jwt", r)
  /\ hurried' = IF Generating(r) = {} THEN hurried ELSE hurried \cup {r}
  /\ UNCHANGED <<state, did, key, wallet, mishap, pending, granted, revoked>>

(* Mutant: the request stays pending. *)
JwtSigned_StaysPending(c) ==
  /\ Waits(c, "jwt")
  /\ Ends(c)
  /\ granted' = granted \cup {calls[c].arg}
  /\ UNCHANGED <<state, did, key, wallet, mishap, pending, hurried, revoked>>

JwtSigned(c) ==
  /\ Waits(c, "jwt")
  /\ Ends(c)
  /\ pending' = pending \ {calls[c].arg}
  /\ granted' = granted \cup {calls[c].arg}
  /\ UNCHANGED <<state, did, key, wallet, mishap, hurried, revoked>>

RevokeToken(r) ==
  /\ r \in granted
  /\ granted' = granted \ {r}
  /\ revoked' = revoked \cup {r}
  /\ UNCHANGED <<agentVars, pending, hurried>>

Next ==
  \/ \E c \in Calls :
       \/ \E p \in Passphrases : Generate(c, p) \/ Unlock(c, p)
       \/ Generated(c) \/ SaveFails(c) \/ Unlocked(c) \/ UnlockFails(c)
       \/ \E r \in Requests : GenerateJwt(c, r)
       \/ JwtSigned(c)
  \/ \E r \in Requests : RequestCapability(r) \/ RevokeToken(r)
  \/ Lock \/ Reload

-----------------------------------------------------------------------------
(***************************************************************************)
(* Between calls that did not overlap, and as long as the wallet took what *)
(* it was given, the status is true: an agent that is unlocked signs what  *)
(* its did verifies, and the wallet gives that did again.                  *)
(***************************************************************************)
StatusIsTrue ==
  /\ key # None => key = did
  /\ ~mishap /\ AgentCalls = {} =>
       /\ did # None => wallet.pair = did
       /\ state = "Unlocked" => Verifies(Signature)

(***************************************************************************)
(* A request whose token was revoked gets no other, unless two tokens were *)
(* asked for it at the same time; and no request is pending and granted.   *)
(***************************************************************************)
RevokedForGood ==
  /\ granted \cap revoked \subseteq hurried
  /\ pending \cap granted = {}
=============================================================================
