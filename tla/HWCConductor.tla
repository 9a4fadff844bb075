----------------------------- MODULE HWCConductor -----------------------------
(***************************************************************************)
(* The conductor over the Holo Web Conductor extension of the browser: the *)
(* connection state that it shows, the handlers that it leaves with the    *)
(* extension, and the callbacks of its users.                              *)
(***************************************************************************)
EXTENDS Naturals, FiniteSets

CONSTANTS
  Connections,  \* calls of connect() and disconnect(): 1..n
  Listeners,    \* callbacks of onSignal
  None

VARIABLES
  extension,  \* whether the page has the extension
  status,     \* the connection status of the extension
  state,      \* the state the conductor shows
  handlers,   \* the connect() calls whose status handler the extension has
  unsub,      \* the one of them disconnect() takes back, or None
  conns,      \* each call, and how far it has come
  callbacks,  \* signalCallbacks
  relays,     \* the listeners whose onSignal left a handler with the extension
  heard,      \* how often each listener got the last signal
  doubled     \* history: a connect() ended while another had its handler

hwcVars == <<extension, status, state, handlers, unsub, conns, callbacks, relays,
             heard, doubled>>

Statuses == {"connected", "connecting", "disconnected", "error"}

Init ==
  /\ extension \in BOOLEAN
  /\ status = "disconnected"
  /\ state = "disconnected"
  /\ handlers = {}
  /\ unsub = None
  /\ conns = [c \in Connections |-> "none"]
  /\ callbacks = {}
  /\ relays = {}
  /\ heard = [l \in Listeners |-> 0]
  /\ doubled = FALSE

Calling(c, at) ==
  /\ conns[c] = "none"
  /\ \A d \in Connections : d < c => conns[d] # "none"
  /\ conns' = [conns EXCEPT ![c] = at]

Goes(c, at) == conns' = [conns EXCEPT ![c] = at]

(* The extension is injected into the page some time after it loads. *)
Injected ==
  /\ ~extension
  /\ extension' = TRUE
  /\ UNCHANGED <<status, state, handlers, unsub, conns, callbacks, relays, heard, doubled>>

(* Every handler that the extension still has sets the state. *)
ChangesTo(s) ==
  /\ status' = s
  /\ state' = IF handlers = {} THEN state ELSE s

StatusChange ==
  /\ extension
  /\ \E s \in Statuses \ {status} : ChangesTo(s)
  /\ UNCHANGED <<extension, handlers, unsub, conns, callbacks, relays, heard, doubled>>

(* Without the extension connect() throws and changes nothing. *)
Connect(c) ==
  /\ extension
  /\ Calling(c, "connecting")
  /\ state' = "connecting"
  /\ UNCHANGED <<extension, status, handlers, unsub, callbacks, relays, heard, doubled>>

(* After connect() and configureNetwork() of the extension. *)
Connected(c) ==
  /\ conns[c] = "connecting"
  /\ handlers' = handlers \cup {c}
  /\ unsub' = c
  /\ doubled' = (doubled \/ unsub # None)
  /\ state' = "connected"
  /\ Goes(c, "done")
  /\ UNCHANGED <<extension, status, callbacks, relays, heard>>

ConnectFails(c) ==
  /\ conns[c] = "connecting"
  /\ state' = "error"
  /\ Goes(c, "done")
  /\ UNCHANGED <<extension, status, handlers, unsub, callbacks, relays, heard, doubled>>

(* What the extension answers does not matter, nor whether it is there. *)
Disconnect(c) ==
  /\ Calling(c, "disconnecting")
  /\ UNCHANGED <<extension, status, state, handlers, unsub, callbacks, relays, heard, doubled>>

(* Mutant: the state is reset and the handler stays. *)
Disconnected_KeepsHandler(c) ==
  /\ conns[c] = "disconnecting"
  /\ unsub' = None
  /\ state' = "disconnected"
  /\ Goes(c, "done")
  /\ UNCHANGED <<extension, status, handlers, callbacks, relays, heard, doubled>>

Disconnected(c) ==
  /\ conns[c] = "disconnecting"
  /\ handlers' = handlers \ {unsub}
  /\ unsub' = None
  /\ state' = "disconnected"
  /\ Goes(c, "done")
  /\ UNCHANGED <<extension, status, callbacks, relays, heard, doubled>>

(* A listener that comes before the extension gets no handler of its own. *)
OnSignal(l) ==
  /\ l \notin callbacks
  /\ callbacks' = callbacks \cup {l}
  /\ relays' = IF extension THEN relays \cup {l} ELSE relays
  /\ heard' = [heard EXCEPT ![l] = 0]
  /\ UNCHANGED <<extension, status, state, handlers, unsub, conns, doubled>>

OffSignal(l) ==
  /\ l \in callbacks
  /\ callbacks' = callbacks \ {l}
  /\ relays' = relays \ {l}
  /\ heard' = [heard EXCEPT ![l] = 0]
  /\ UNCHANGED <<extension, status, state, handlers, unsub, conns, doubled>>

(* Each handler calls all callbacks. *)
Signal ==
  /\ extension
  /\ heard' = [l \in Listeners |-> IF l \in callbacks THEN Cardinality(relays) ELSE heard[l]]
  /\ UNCHANGED <<extension, status, state, handlers, unsub, conns, callbacks, relays, doubled>>

Next ==
  \/ \E c \in Connections :
       \/ Connect(c) \/ Connected(c) \/ ConnectFails(c)
       \/ Disconnect(c) \/ Disconnected(c)
  \/ \E l \in Listeners : OnSignal(l) \/ OffSignal(l)
  \/ Injected \/ StatusChange \/ Signal

-----------------------------------------------------------------------------
(***************************************************************************)
(* When every disconnect() that was called has ended and no connect() has  *)
(* ended since, the extension has no handler that would change the state,  *)
(* unless connect() was called twice with no disconnect() in between.      *)
(***************************************************************************)
NoStrayHandler == ~doubled => handlers \subseteq {unsub}
=============================================================================
