------------------------------ MODULE Languages ------------------------------
(***************************************************************************)
(* The language manager with its in-process host, the workers in which     *)
(* bundles run, and the executor that installs the bootstrap languages and *)
(* uninstalls all of them.  An action is the code between two awaits.      *)
(*                                                                         *)
(* A call of install() makes at most one instance of a language, which is  *)
(* known by the call, as is the source that it was given or resolved.      *)
(***************************************************************************)
EXTENDS Naturals

CONSTANTS
  Addresses,  \* of languages
  Calls,      \* of install, uninstall and applyTemplateAndPublish: 1..n
  Bootstrap,  \* the addresses that the executor installs, one after the other
  None

ASSUME LanguagesAssumption ==
  /\ None \notin Calls \cup Addresses
  /\ Bootstrap \subseteq Addresses

VARIABLES
  loaded,     \* the instance the host holds at an address
  sources,    \* the call whose source an address has
  metadata,   \* the addresses with metadata
  settings,   \* the addresses with settings of their own
  instance,   \* the state of each instance
  calls,      \* each call, and how far it has come
  executor,   \* what initialize() and shutdown() are doing
  replaced,   \* history: the instances another one was loaded in place of
  mishap      \* history: calls have overlapped, or a teardown threw

languageVars == <<loaded, sources, metadata, settings, instance, calls, executor,
                  replaced, mishap>>

NotMade == [op |-> "none", addr |-> None, at |-> "none"]
UnderWay == {"resolving", "executing", "loaded", "unloaded", "templating"}

LInit ==
  /\ loaded = [a \in Addresses |-> None]
  /\ sources = [a \in Addresses |-> None]
  /\ metadata = {}
  /\ settings = {}
  /\ instance = [c \in Calls |-> "none"]
  /\ calls = [c \in Calls |-> NotMade]
  /\ executor = [at |-> "new", todo |-> {}, call |-> None]
  /\ replaced = {}
  /\ mishap = FALSE

AtRest == \A c \in Calls : calls[c].at \notin UnderWay

(* The calls are numbered in the order in which they are made. *)
Calling(c, op, a, at) ==
  /\ calls[c].at = "none"
  /\ \A d \in Calls : d < c => calls[d].at # "none"
  /\ calls' = [calls EXCEPT ![c] = [op |-> op, addr |-> a, at |-> at]]
  /\ mishap' = (mishap \/ ~AtRest \/ executor.at \in {"closing", "unloading", "closed"})

Goes(c, at) == calls' = [calls EXCEPT ![c].at = at]

(* The source is stored and execute() starts an instance. *)
Starts(c, a) ==
  /\ sources' = [sources EXCEPT ![a] = c]
  /\ instance' = [instance EXCEPT ![c] = "starting"]

(* With a bundle nothing is awaited before it is executed. *)
Install(c, a) ==
  /\ \/ /\ Calling(c, "install", a, "executing")
        /\ Starts(c, a)
     \/ /\ Calling(c, "install", a, "resolving")
        /\ UNCHANGED <<sources, instance>>
  /\ UNCHANGED <<loaded, metadata, settings, executor, replaced>>

Resolved(c) ==
  /\ calls[c].at = "resolving"
  /\ \/ Starts(c, calls[c].addr) /\ Goes(c, "executing")
     \/ Goes(c, "failed") /\ UNCHANGED <<sources, instance>>
  /\ UNCHANGED <<loaded, metadata, settings, executor, replaced, mishap>>

(* host.load() puts the instance in the place of the one at the address. *)
Load(c, a) ==
  /\ loaded' = [loaded EXCEPT ![a] = c]
  /\ replaced' = replaced \cup ({loaded[a]} \ {None})

Executed(c) ==
  /\ calls[c].at = "executing"
  /\ instance' = [instance EXCEPT ![c] = "live"]
  /\ Load(c, calls[c].addr)
  /\ Goes(c, "loaded")
  /\ UNCHANGED <<sources, metadata, settings, executor, mishap>>

ExecuteFails(c, end) ==
  /\ calls[c].at = "executing"
  /\ instance' = [instance EXCEPT ![c] = end]
  /\ Goes(c, "failed")
  /\ UNCHANGED <<loaded, sources, metadata, settings, executor, replaced, mishap>>

(* A bundle that runs in process and throws makes no instance. *)
CreateThrows(c) == ExecuteFails(c, "none")

(* A worker whose bundle throws sends init-error and is left alone. *)
InitFails(c) == ExecuteFails(c, "idle")

InitTimesOut(c) == ExecuteFails(c, "dead")

Installed(c) ==
  /\ calls[c].at = "loaded"
  /\ metadata' = metadata \cup {calls[c].addr}
  /\ Goes(c, "done")
  /\ UNCHANGED <<loaded, sources, settings, instance, executor, replaced, mishap>>

(* Mutant: the host lets go of the language without its teardown. *)
Unload_NoTeardown(a) ==
  /\ loaded' = [loaded EXCEPT ![a] = None]
  /\ UNCHANGED instance

(* host.unload(): the teardown comes first. *)
Unload(a) ==
  /\ instance' = [instance EXCEPT ![loaded[a]] = "dead"]
  /\ loaded' = [loaded EXCEPT ![a] = None]

Forget(a) ==
  /\ metadata' = metadata \ {a}
  /\ sources' = [sources EXCEPT ![a] = None]
  /\ settings' = settings \ {a}

(* removeLanguage() does not wait for unload(), nor for what it throws. *)
RemoveLanguage(a) ==
  /\ loaded[a] # None
  /\ Forget(a)
  /\ \/ Unload(a) /\ mishap' = (mishap \/ ~AtRest)
     \/ UNCHANGED <<instance, loaded>> /\ mishap' = TRUE
  /\ UNCHANGED <<calls, executor, replaced>>

WriteSettings(a) ==
  /\ loaded[a] # None
  /\ settings' = settings \cup {a}
  /\ UNCHANGED <<loaded, sources, metadata, instance, calls, executor, replaced, mishap>>

Uninstall(c, a) ==
  /\ \/ /\ loaded[a] # None
        /\ \/ Unload(a) /\ Calling(c, "uninstall", a, "unloaded")
           \/ Calling(c, "uninstall", a, "failed") /\ UNCHANGED <<instance, loaded>>
        /\ UNCHANGED <<metadata, sources, settings>>
     \/ /\ loaded[a] = None
        /\ Calling(c, "uninstall", a, "done")
        /\ Forget(a)
        /\ UNCHANGED <<instance, loaded>>
  /\ UNCHANGED <<executor, replaced>>

Uninstalled(c) ==
  /\ calls[c].at = "unloaded"
  /\ Forget(calls[c].addr)
  /\ Goes(c, "done")
  /\ UNCHANGED <<loaded, instance, executor, replaced, mishap>>

(* The address is the hash of the text that the parameters give. *)
ApplyTemplate(c, a) ==
  /\ Calling(c, "template", a, "templating")
  /\ UNCHANGED <<loaded, sources, metadata, settings, instance, executor, replaced>>

(* A template is published with a source and metadata, and no instance. *)
Templated(c) ==
  LET a == calls[c].addr IN
  /\ calls[c].at = "templating"
  /\ \/ /\ metadata' = metadata \cup {a}
        /\ sources' = [sources EXCEPT ![a] = c]
        /\ Goes(c, "done")
     \/ Goes(c, "failed") /\ UNCHANGED <<metadata, sources>>
  /\ UNCHANGED <<loaded, settings, instance, executor, replaced, mishap>>

-----------------------------------------------------------------------------
(***************************************************************************)
(* The executor.  initialize() goes on when an install fails; shutdown()   *)
(* works from the metadata of the moment, and a teardown that throws ends  *)
(* it.                                                                     *)
(***************************************************************************)
Initialize ==
  /\ executor.at = "new"
  /\ executor' = [at |-> "booting", todo |-> Bootstrap, call |-> None]
  /\ UNCHANGED <<loaded, sources, metadata, settings, instance, calls, replaced, mishap>>

BootNext(c) ==
  /\ executor.at = "booting"
  /\ executor.call = None
  /\ \E a \in executor.todo :
       /\ Calling(c, "install", a, "resolving")
       /\ executor' = [executor EXCEPT !.call = c, !.todo = @ \ {a}]
  /\ UNCHANGED <<loaded, sources, metadata, settings, instance, replaced>>

Booted ==
  /\ executor.at = "booting"
  /\ \/ executor.call # None /\ calls[executor.call].at \in {"done", "failed"}
     \/ executor.call = None /\ executor.todo = {}
  /\ executor' = [executor EXCEPT !.call = None,
                                  !.at = IF executor.todo = {} THEN "ready" ELSE @]
  /\ UNCHANGED <<loaded, sources, metadata, settings, instance, calls, replaced, mishap>>

(* Mutant: only the languages of the bootstrap are uninstalled. *)
Shutdown_Bootstrap ==
  /\ executor.at = "ready"
  /\ executor' = [at |-> "closing", todo |-> Bootstrap, call |-> None]
  /\ mishap' = (mishap \/ ~AtRest)
  /\ UNCHANGED <<loaded, sources, metadata, settings, instance, calls, replaced>>

Shutdown ==
  /\ executor.at = "ready"
  /\ executor' = [at |-> "closing", todo |-> metadata, call |-> None]
  /\ mishap' = (mishap \/ ~AtRest)
  /\ UNCHANGED <<loaded, sources, metadata, settings, instance, calls, replaced>>

(* executor.call is the address that is being uninstalled. *)
CloseNext ==
  /\ executor.at = "closing"
  /\ \E a \in executor.todo :
       \/ /\ loaded[a] # None
          /\ Unload(a)
          /\ executor' = [at |-> "unloading", todo |-> executor.todo \ {a}, call |-> a]
          /\ UNCHANGED <<metadata, sources, settings>>
       \/ /\ loaded[a] # None
          /\ executor' = [executor EXCEPT !.at = "failed"]
          /\ UNCHANGED <<instance, loaded, metadata, sources, settings>>
       \/ /\ loaded[a] = None
          /\ Forget(a)
          /\ executor' = [executor EXCEPT !.todo = @ \ {a}]
          /\ UNCHANGED <<instance, loaded>>
  /\ UNCHANGED <<calls, replaced, mishap>>

Closed ==
  /\ \/ /\ executor.at = "unloading"
        /\ Forget(executor.call)
        /\ executor' = [executor EXCEPT !.at = "closing", !.call = None]
     \/ /\ executor.at = "closing"
        /\ executor.todo = {}
        /\ executor' = [executor EXCEPT !.at = "closed"]
        /\ UNCHANGED <<metadata, sources, settings>>
  /\ UNCHANGED <<loaded, instance, calls, replaced, mishap>>

LNext ==
  \/ \E c \in Calls :
       \/ \E a \in Addresses : Install(c, a) \/ Uninstall(c, a) \/ ApplyTemplate(c, a)
       \/ Resolved(c) \/ Executed(c) \/ CreateThrows(c) \/ InitFails(c) \/ InitTimesOut(c)
       \/ Installed(c)
       \/ Uninstalled(c) \/ Templated(c)
       \/ BootNext(c)
  \/ \E a \in Addresses : RemoveLanguage(a) \/ WriteSettings(a)
  \/ Initialize \/ Booted \/ Shutdown \/ CloseNext \/ Closed

-----------------------------------------------------------------------------
(***************************************************************************)
(* What the host holds is alive, and what is alive the host holds, unless  *)
(* a later install of the same address took its place: uninstalling,       *)
(* shutting down and failing leave no instance that nobody can tear down.  *)
(***************************************************************************)
NoOrphan ==
  /\ \A a \in Addresses : loaded[a] # None => instance[loaded[a]] = "live"
  /\ \A c \in Calls : instance[c] = "live" =>
       loaded[calls[c].addr] = c \/ c \in replaced

(***************************************************************************)
(* shutdown() leaves no language loaded, whatever was installed, failed,   *)
(* templated or removed before it, as long as no call overlapped another   *)
(* and no teardown threw.                                                  *)
(***************************************************************************)
ShutdownUnloads ==
  executor.at = "closed" /\ ~mishap => \A a \in Addresses : loaded[a] = None
=============================================================================
