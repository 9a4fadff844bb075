------------------------ MODULE Neighbourhoods_proofs ------------------------
(***************************************************************************)
(* For any number of languages, perspectives and calls: no instance is     *)
(* left that nobody can tear down, shutdown() unloads every language, a    *)
(* URL that a perspective shows can be joined, and a perspective is not    *)
(* Synced on account of an engine that has not started.                    *)
(***************************************************************************)
EXTENDS MCNeighbourhoods, TLAPS

-----------------------------------------------------------------------------
(***************************************************************************)
(* The language manager.                                                   *)
(***************************************************************************)
CallAt == {"none", "resolving", "executing", "loaded", "unloaded", "templating",
           "done", "failed"}
InstanceState == {"none", "starting", "live", "idle", "dead"}
ExecutorAt == {"new", "booting", "ready", "closing", "unloading", "closed", "failed"}

(* A call that was made has an address. *)
Call == [op : {"none"}, addr : {None}, at : {"none"}]
          \cup [op : {"install", "uninstall", "template"}, addr : Addresses,
                at : CallAt \ {"none"}]

Executor ==
  [at : ExecutorAt, todo : SUBSET Addresses, call : Calls \cup Addresses \cup {None}]

LTypeOK ==
  /\ loaded \in [Addresses -> Calls \cup {None}]
  /\ metadata \subseteq Addresses
  /\ instance \in [Calls -> InstanceState]
  /\ calls \in [Calls -> Call]
  /\ executor \in Executor

(***************************************************************************)
(* The calls go on by one step at a time: one is made, or one goes on.     *)
(***************************************************************************)
LEMMA CallingTyped ==
  ASSUME LTypeOK, NEW c \in Calls, NEW a \in Addresses,
         NEW op \in {"install", "uninstall", "template"},
         NEW at \in CallAt \ {"none"}, Calling(c, op, a, at)
  PROVE  /\ calls' \in [Calls -> Call]
         /\ calls[c].at = "none"
         /\ calls'[c].addr = a /\ calls'[c].at = at
         /\ \A d \in Calls \ {c} : calls'[d] = calls[d]
<1>1. [op |-> op, addr |-> a, at |-> at] \in Call
  BY DEF Call
<1> QED
  BY <1>1 DEF Calling, LTypeOK

LEMMA GoesTyped ==
  ASSUME LTypeOK, NEW c \in Calls, NEW at \in CallAt \ {"none"},
         calls[c].at # "none", Goes(c, at)
  PROVE  /\ calls' \in [Calls -> Call]
         /\ calls[c].addr \in Addresses
         /\ calls'[c].addr = calls[c].addr /\ calls'[c].at = at
         /\ \A d \in Calls \ {c} : calls'[d] = calls[d]
<1> DEFINE k == [calls[c] EXCEPT !.at = at]
<1>1. calls[c] \in [op : {"install", "uninstall", "template"}, addr : Addresses,
                    at : CallAt \ {"none"}]
  BY DEF LTypeOK, Call
<1>2. k \in Call /\ k.addr = calls[c].addr /\ k.at = at
  BY <1>1 DEF Call
<1>3. calls' = [calls EXCEPT ![c] = k]
  BY DEF Goes
<1> HIDE DEF k
<1> QED
  BY <1>1, <1>2, <1>3 DEF LTypeOK

LEMMA LTypeInit == LInit => LTypeOK
BY LanguagesAssumption
   DEF LInit, LTypeOK, NotMade, Call, InstanceState, Executor, ExecutorAt

LEMMA LTypeStep == LTypeOK /\ (LNext \/ UNCHANGED languageVars) => LTypeOK'
<1> SUFFICES ASSUME LTypeOK, LNext \/ UNCHANGED languageVars
             PROVE  LTypeOK'
  OBVIOUS
<1> USE DEF CallAt, InstanceState
<1>1. ASSUME NEW c \in Calls, NEW a \in Addresses, Install(c, a)
      PROVE  LTypeOK'
  <2>1. calls' \in [Calls -> Call]
    BY <1>1, CallingTyped DEF Install
  <2> QED
    BY <1>1, <2>1 DEF Install, Starts, LTypeOK
<1>2. ASSUME NEW c \in Calls, NEW a \in Addresses, Uninstall(c, a)
      PROVE  LTypeOK'
  <2>1. calls' \in [Calls -> Call]
    BY <1>2, CallingTyped DEF Uninstall
  <2> QED
    BY <1>2, <2>1 DEF Uninstall, Unload, Forget, LTypeOK
<1>3. ASSUME NEW c \in Calls, NEW a \in Addresses, ApplyTemplate(c, a)
      PROVE  LTypeOK'
  <2>1. calls' \in [Calls -> Call]
    BY <1>3, CallingTyped DEF ApplyTemplate
  <2> QED
    BY <1>3, <2>1 DEF ApplyTemplate, LTypeOK
<1>4. ASSUME NEW c \in Calls, Resolved(c)
      PROVE  LTypeOK'
  <2>1. calls' \in [Calls -> Call]
    BY <1>4, GoesTyped DEF Resolved
  <2> QED
    BY <1>4, <2>1 DEF Resolved, Starts, LTypeOK
<1>5. ASSUME NEW c \in Calls, Executed(c)
      PROVE  LTypeOK'
  <2>1. calls' \in [Calls -> Call]
    BY <1>5, GoesTyped DEF Executed
  <2> QED
    BY <1>5, <2>1 DEF Executed, Load, LTypeOK
<1>6. ASSUME NEW c \in Calls, CreateThrows(c) \/ InitFails(c) \/ InitTimesOut(c)
      PROVE  LTypeOK'
  <2>1. PICK end \in InstanceState : ExecuteFails(c, end)
    BY <1>6 DEF CreateThrows, InitFails, InitTimesOut
  <2>2. calls' \in [Calls -> Call]
    BY <2>1, GoesTyped DEF ExecuteFails
  <2> QED
    BY <2>1, <2>2 DEF ExecuteFails, LTypeOK
<1>7. ASSUME NEW c \in Calls, Installed(c) \/ Uninstalled(c) \/ Templated(c)
      PROVE  LTypeOK'
  <2>1. /\ calls' \in [Calls -> Call]
        /\ calls[c].addr \in Addresses
    BY <1>7, GoesTyped DEF Installed, Uninstalled, Templated
  <2> QED
    BY <1>7, <2>1 DEF Installed, Uninstalled, Templated, Forget, LTypeOK
<1>8. ASSUME NEW c \in Calls, BootNext(c)
      PROVE  LTypeOK'
  <2>1. calls' \in [Calls -> Call]
    BY <1>8, CallingTyped DEF BootNext, LTypeOK, Executor
  <2>2. PICK a \in executor.todo :
          executor' = [executor EXCEPT !.call = c, !.todo = @ \ {a}]
    BY <1>8 DEF BootNext
  <2>3. executor' \in Executor
    BY <2>2 DEF LTypeOK, Executor
  <2> QED
    BY <1>8, <2>1, <2>3 DEF BootNext, LTypeOK
<1>9. ASSUME NEW a \in Addresses, RemoveLanguage(a) \/ WriteSettings(a)
      PROVE  LTypeOK'
  BY <1>9 DEF RemoveLanguage, WriteSettings, Unload, Forget, LTypeOK
<1>10. CASE Initialize \/ Booted \/ Shutdown \/ Closed
  <2> USE DEF LTypeOK, Executor, ExecutorAt
  <2>1. Initialize \/ Shutdown => executor' \in Executor
    BY LanguagesAssumption DEF Initialize, Shutdown
  <2>2. Booted => executor' \in Executor
    BY DEF Booted
  <2>3. Closed => executor' \in Executor
    BY DEF Closed
  <2> QED
    BY <1>10, <2>1, <2>2, <2>3 DEF Initialize, Booted, Shutdown, Closed, Forget, LTypeOK
<1>11. CASE CloseNext
  BY <1>11 DEF CloseNext, Unload, Forget, ExecutorAt, Executor, LTypeOK
<1>12. CASE UNCHANGED languageVars
  BY <1>12 DEF languageVars, LTypeOK
<1> QED
  BY <1>1, <1>2, <1>3, <1>4, <1>5, <1>6, <1>7, <1>8, <1>9, <1>10, <1>11, <1>12
     DEF LNext

(***************************************************************************)
(* What NoOrphan rests on: an address holds the instance of a call for     *)
(* that address, and a call that has not executed its bundle has none.     *)
(***************************************************************************)
HeldIsLive ==
  \A a \in Addresses : loaded[a] # None =>
    /\ instance[loaded[a]] = "live"
    /\ calls[loaded[a]].addr = a

LiveIsHeld ==
  \A c \in Calls : instance[c] = "live" =>
    loaded[calls[c].addr] = c \/ c \in replaced

NotYet ==
  \A c \in Calls :
    /\ calls[c].at \in {"none", "resolving"} => instance[c] = "none"
    /\ calls[c].at = "executing" => instance[c] = "starting"

OrphanInv == HeldIsLive /\ LiveIsHeld /\ NotYet

LEMMA OrphanStep ==
  LTypeOK /\ OrphanInv /\ (LNext \/ UNCHANGED languageVars) => OrphanInv'
<1> SUFFICES ASSUME LTypeOK, OrphanInv, LNext \/ UNCHANGED languageVars
             PROVE  OrphanInv'
  OBVIOUS
<1> USE DEF CallAt, InstanceState, OrphanInv, HeldIsLive, LiveIsHeld, NotYet
(* A call is made; at most its instance starts. *)
<1>1. ASSUME NEW c \in Calls, NEW a \in Addresses,
             NEW op \in {"install", "uninstall", "template"},
             NEW at \in CallAt \ {"none"}, Calling(c, op, a, at),
             UNCHANGED <<loaded, replaced>>,
             \/ at = "executing" /\ instance' = [instance EXCEPT ![c] = "starting"]
             \/ at # "executing" /\ UNCHANGED instance
      PROVE  OrphanInv'
  BY <1>1, CallingTyped DEF LTypeOK
<1>2. ASSUME NEW a \in Addresses, loaded[a] # None, Unload(a), UNCHANGED replaced,
             calls' \in [Calls -> Call],
             \A c \in Calls :
               \/ calls'[c] = calls[c]
               \/ calls[c].at = "none" /\ calls'[c].at \notin {"resolving", "executing"}
      PROVE  OrphanInv'
  BY <1>2 DEF LTypeOK, Unload
<1>3. ASSUME NEW c \in Calls, NEW at \in CallAt \ {"none", "resolving", "executing"},
             calls[c].at # "none", Goes(c, at), UNCHANGED <<instance, loaded, replaced>>
      PROVE  OrphanInv'
  BY <1>3, GoesTyped DEF LTypeOK
<1>4. ASSUME UNCHANGED <<instance, loaded, replaced, calls>>
      PROVE  OrphanInv'
  BY <1>4
<1>5. ASSUME NEW c \in Calls, NEW a \in Addresses, Install(c, a)
      PROVE  OrphanInv'
  BY <1>5, <1>1 DEF Install, Starts
<1>6. ASSUME NEW c \in Calls, NEW a \in Addresses, Uninstall(c, a)
      PROVE  OrphanInv'
  <2>1. CASE UNCHANGED <<instance, loaded>>
    BY <2>1, <1>1, <1>6 DEF Uninstall
  <2>2. CASE loaded[a] # None /\ Unload(a) /\ Calling(c, "uninstall", a, "unloaded")
    BY <2>2, <1>2, <1>6, CallingTyped DEF Uninstall
  <2> QED
    BY <1>6, <2>1, <2>2 DEF Uninstall
<1>7. ASSUME NEW c \in Calls, NEW a \in Addresses, ApplyTemplate(c, a)
      PROVE  OrphanInv'
  BY <1>7, <1>1 DEF ApplyTemplate
<1>8. ASSUME NEW c \in Calls, Resolved(c)
      PROVE  OrphanInv'
  <2>1. CASE Starts(c, calls[c].addr) /\ Goes(c, "executing")
    BY <1>8, <2>1, GoesTyped DEF Resolved, Starts, LTypeOK
  <2>2. CASE Goes(c, "failed") /\ UNCHANGED <<sources, instance>>
    BY <1>8, <2>2, <1>3 DEF Resolved
  <2> QED
    BY <1>8, <2>1, <2>2 DEF Resolved
<1>9. ASSUME NEW c \in Calls, Executed(c)
      PROVE  OrphanInv'
  <2> DEFINE a == calls[c].addr
  <2>1. /\ a \in Addresses /\ calls'[c].addr = a /\ calls'[c].at = "loaded"
        /\ \A d \in Calls \ {c} : calls'[d] = calls[d]
    BY <1>9, GoesTyped DEF Executed
  <2>2. /\ calls[c].at = "executing"
        /\ instance' = [instance EXCEPT ![c] = "live"]
        /\ loaded' = [loaded EXCEPT ![a] = c]
        /\ replaced' = replaced \cup ({loaded[a]} \ {None})
    BY <1>9 DEF Executed, Load
  <2> HIDE DEF a
  <2>3. NotYet'
    BY <2>1, <2>2 DEF LTypeOK
  <2>4. HeldIsLive'
    BY <2>1, <2>2 DEF LTypeOK
  <2>5. LiveIsHeld'
    BY <2>1, <2>2, LanguagesAssumption DEF LTypeOK
  <2> QED
    BY <2>3, <2>4, <2>5
<1>10. ASSUME NEW c \in Calls, CreateThrows(c) \/ InitFails(c) \/ InitTimesOut(c)
      PROVE  OrphanInv'
  <2>1. PICK end \in InstanceState \ {"live"} : ExecuteFails(c, end)
    BY <1>10 DEF CreateThrows, InitFails, InitTimesOut
  <2> QED
    BY <2>1, GoesTyped DEF ExecuteFails, LTypeOK
<1>11. ASSUME NEW c \in Calls, Installed(c) \/ Uninstalled(c) \/ Templated(c)
      PROVE  OrphanInv'
  BY <1>11, <1>3 DEF Installed, Uninstalled, Templated
<1>12. ASSUME NEW c \in Calls, BootNext(c)
      PROVE  OrphanInv'
  BY <1>12, <1>1 DEF BootNext, LTypeOK, Executor
<1>13. ASSUME NEW a \in Addresses, RemoveLanguage(a)
      PROVE  OrphanInv'
  BY <1>13, <1>2, <1>4 DEF RemoveLanguage, LTypeOK
<1>14. CASE CloseNext
  BY <1>14, <1>2, <1>4 DEF CloseNext, LTypeOK, Executor
<1>15. CASE Initialize \/ Booted \/ Shutdown \/ Closed
  BY <1>15, <1>4 DEF Initialize, Booted, Shutdown, Closed
<1>16. ASSUME NEW a \in Addresses, WriteSettings(a)
      PROVE  OrphanInv'
  BY <1>16, <1>4 DEF WriteSettings
<1>17. CASE UNCHANGED languageVars
  BY <1>17, <1>4 DEF languageVars
<1> QED
  BY <1>5, <1>6, <1>7, <1>8, <1>9, <1>10, <1>11, <1>12, <1>13, <1>14, <1>15, <1>16,
     <1>17
     DEF LNext

(***************************************************************************)
(* What ShutdownUnloads rests on, as long as no call overlapped another    *)
(* and no teardown threw: calls are made one at a time and none while the  *)
(* executor closes; what is loaded has metadata, or the install that       *)
(* loaded it is about to give it metadata; what is still loaded when the   *)
(* executor closes is still to be uninstalled.                             *)
(***************************************************************************)
Closing == {"closing", "unloading", "closed"}

OneAtATime ==
  /\ \A c, d \in Calls : calls[c].at \in UnderWay /\ calls[d].at \in UnderWay => c = d
  /\ executor.at \in Closing => AtRest

HasMetadata ==
  \A a \in Addresses :
    loaded[a] # None => a \in metadata \/ calls[loaded[a]].at = "loaded"

TornDown ==
  /\ \A c \in Calls : calls[c].at = "unloaded" => loaded[calls[c].addr] = None
  /\ executor.at = "unloading" => loaded[executor.call] = None
  /\ executor.at = "closed" => executor.todo = {}

ToUninstall ==
  executor.at \in Closing => \A a \in Addresses : loaded[a] # None => a \in executor.todo

ShutdownInv == mishap \/ (OneAtATime /\ HasMetadata /\ TornDown /\ ToUninstall)

LEMMA ShutdownStep ==
  LTypeOK /\ OrphanInv /\ ShutdownInv /\ (LNext \/ UNCHANGED languageVars)
    => ShutdownInv'
<1> SUFFICES ASSUME LTypeOK, OrphanInv, ShutdownInv, LNext \/ UNCHANGED languageVars,
                    ~mishap'
             PROVE  ShutdownInv'
  BY DEF ShutdownInv
<1> USE DEF UnderWay, Closing, AtRest
<1> DEFINE Clean == OneAtATime /\ HasMetadata /\ TornDown /\ ToUninstall
<1>0. ASSUME ~mishap
      PROVE  OneAtATime /\ HasMetadata /\ TornDown /\ ToUninstall /\ HeldIsLive
  BY <1>0 DEF ShutdownInv, OrphanInv
<1> SUFFICES Clean'
  BY DEF ShutdownInv
(* A call is made while no other is under way. *)
<1>1. ASSUME NEW c \in Calls, NEW a \in Addresses,
             NEW op \in {"install", "uninstall", "template"},
             NEW at \in CallAt \ {"none", "loaded"}, Calling(c, op, a, at),
             \/ UNCHANGED executor
             \/ executor'.at = "booting",
             \A b \in Addresses : loaded'[b] # None => loaded'[b] = loaded[b],
             at = "unloaded" => loaded'[a] = None,
             \A b \in metadata \ metadata' : loaded'[b] = None
      PROVE  Clean'
  <2>1. /\ ~mishap /\ AtRest /\ executor.at \notin Closing
        /\ calls'[c].addr = a /\ calls'[c].at = at
        /\ \A d \in Calls \ {c} : calls'[d] = calls[d]
        /\ \A b \in Addresses : loaded[b] # None => loaded[b] \in Calls
    BY <1>1, CallingTyped DEF Calling, LTypeOK
  <2>2. executor'.at \notin Closing
    BY <1>1, <2>1
  <2>3. OneAtATime'
    BY <2>1, <2>2 DEF OneAtATime
  <2>4. HasMetadata'
    BY <1>0, <1>1, <2>1 DEF HasMetadata
  <2>5. TornDown' /\ ToUninstall'
    BY <1>1, <2>1, <2>2 DEF TornDown, ToUninstall
  <2> QED
    BY <2>3, <2>4, <2>5
(* A call goes on, and what it loads or gives metadata is at its address. *)
<1>2. ASSUME NEW c \in Calls, NEW at \in CallAt \ {"none", "unloaded"},
             calls[c].at \in UnderWay, Goes(c, at), UNCHANGED executor, ~mishap,
             \A b \in Addresses \ {calls[c].addr} : loaded'[b] = loaded[b],
             loaded'[calls[c].addr] = IF at = "loaded" THEN c ELSE loaded[calls[c].addr],
             calls[c].at = "loaded" => calls[c].addr \in metadata',
             \A b \in metadata \ metadata' : loaded'[b] = None
      PROVE  Clean'
  <2>1. /\ ~mishap /\ ~AtRest /\ calls[c].addr \in Addresses
        /\ calls'[c].addr = calls[c].addr /\ calls'[c].at = at
        /\ \A d \in Calls \ {c} : calls'[d] = calls[d]
        /\ \A b \in Addresses : loaded[b] # None => loaded[b] \in Calls
    BY <1>2, GoesTyped DEF LTypeOK
  <2>2. Clean /\ HeldIsLive /\ executor'.at \notin Closing
    BY <1>0, <1>2, <2>1 DEF OneAtATime
  <2>3. \A d \in Calls \ {c} : calls'[d].at \notin UnderWay
    BY <1>2, <2>1, <2>2 DEF OneAtATime
  <2>4. OneAtATime'
    BY <2>1, <2>2, <2>3 DEF OneAtATime
  <2>5. HasMetadata'
    BY <1>2, <2>1, <2>2 DEF HasMetadata, HeldIsLive
  <2>6. TornDown' /\ ToUninstall'
    BY <1>2, <2>1, <2>2, <2>3 DEF TornDown, ToUninstall
  <2> QED
    BY <2>4, <2>5, <2>6
(* Something is unloaded or forgotten, and no call goes on. *)
<1>3. ASSUME UNCHANGED calls, ~mishap,
             \A b \in Addresses : loaded'[b] # None => loaded'[b] = loaded[b],
             \A b \in metadata \ metadata' : loaded'[b] = None,
             executor'.at \in Closing =>
               /\ AtRest
               /\ \A b \in Addresses : loaded'[b] # None => b \in executor'.todo,
             executor'.at = "unloading" => loaded'[executor'.call] = None,
             executor'.at = "closed" => executor'.todo = {}
      PROVE  Clean'
  <2>1. OneAtATime' /\ HasMetadata'
    BY <1>0, <1>3 DEF OneAtATime, HasMetadata
  <2>2. \A c \in Calls : calls[c].at = "unloaded" => calls[c].addr \in Addresses
    BY DEF LTypeOK, Call
  <2>3. TornDown' /\ ToUninstall'
    BY <1>0, <1>3, <2>2 DEF TornDown, ToUninstall
  <2> QED
    BY <2>1, <2>3
<1> HIDE DEF Clean
<1>4. ASSUME NEW c \in Calls, NEW a \in Addresses, Install(c, a)
      PROVE  Clean'
  BY <1>4, <1>1 DEF Install, CallAt
<1>5. ASSUME NEW c \in Calls, NEW a \in Addresses, Uninstall(c, a)
      PROVE  Clean'
  BY <1>5, <1>1 DEF Uninstall, Unload, Forget, CallAt, LTypeOK
<1>6. ASSUME NEW c \in Calls, NEW a \in Addresses, ApplyTemplate(c, a)
      PROVE  Clean'
  BY <1>6, <1>1 DEF ApplyTemplate, CallAt
<1>7. ASSUME NEW c \in Calls, BootNext(c)
      PROVE  Clean'
  <2>1. PICK a \in executor.todo :
          /\ Calling(c, "install", a, "resolving")
          /\ executor' = [executor EXCEPT !.call = c, !.todo = @ \ {a}]
    BY <1>7 DEF BootNext
  <2>2. a \in Addresses /\ executor'.at = "booting"
    BY <1>7, <2>1 DEF BootNext, LTypeOK, Executor
  <2> QED
    BY <1>7, <2>1, <2>2, <1>1 DEF BootNext, CallAt
<1>8. ASSUME NEW c \in Calls, Resolved(c)
      PROVE  Clean'
  BY <1>8, <1>2 DEF Resolved, Starts, CallAt
<1>9. ASSUME NEW c \in Calls, Executed(c)
      PROVE  Clean'
  <2>1. calls[c].addr \in Addresses
    BY <1>9, GoesTyped DEF Executed, CallAt
  <2> QED
    BY <1>9, <1>2, <2>1 DEF Executed, Load, CallAt, LTypeOK
<1>10. ASSUME NEW c \in Calls, CreateThrows(c) \/ InitFails(c) \/ InitTimesOut(c)
      PROVE  Clean'
  <2>1. PICK end \in InstanceState : ExecuteFails(c, end)
    BY <1>10 DEF CreateThrows, InitFails, InitTimesOut, InstanceState
  <2> QED
    BY <2>1, <1>2 DEF ExecuteFails, CallAt
<1>11. ASSUME NEW c \in Calls, Installed(c)
      PROVE  Clean'
  BY <1>11, <1>2 DEF Installed, CallAt
<1>12. ASSUME NEW c \in Calls, Templated(c)
      PROVE  Clean'
  BY <1>12, <1>2 DEF Templated, CallAt
<1>13. ASSUME NEW c \in Calls, Uninstalled(c)
       PROVE  Clean'
  <2>1. /\ calls[c].addr \in Addresses
        /\ loaded[calls[c].addr] = None
    BY <1>13, <1>0, GoesTyped DEF Uninstalled, TornDown, CallAt
  <2> QED
    BY <1>13, <1>2, <2>1, LanguagesAssumption DEF Uninstalled, Forget, CallAt
<1>14. ASSUME NEW a \in Addresses, RemoveLanguage(a)
       PROVE  Clean'
  <2>1. /\ Unload(a) /\ Forget(a) /\ UNCHANGED <<calls, executor>> /\ ~mishap
    BY <1>14 DEF RemoveLanguage
  <2>2. /\ \A b \in Addresses : loaded'[b] # None => loaded'[b] = loaded[b]
        /\ \A b \in metadata \ metadata' : loaded'[b] = None
        /\ loaded'[executor.call] \in {loaded[executor.call], None}
    BY <2>1 DEF Unload, Forget, LTypeOK
  <2> QED
    BY <2>1, <2>2, <1>0, <1>3 DEF OneAtATime, ToUninstall, TornDown
<1>15. CASE Initialize
  BY <1>15, <1>3 DEF Initialize
<1>16. CASE Booted
  <2>1. executor'.at \in {"booting", "ready"}
    BY <1>16 DEF Booted, LTypeOK, Executor
  <2> QED
    BY <1>16, <2>1, <1>3 DEF Booted
<1>17. CASE Shutdown
  <2>1. ~mishap /\ AtRest /\ HasMetadata
    BY <1>17, <1>0 DEF Shutdown
  <2> QED
    BY <1>17, <2>1, <1>3 DEF Shutdown, HasMetadata, LTypeOK
<1>18. CASE CloseNext
  <2>1. /\ ~mishap /\ AtRest
        /\ \A b \in Addresses : loaded[b] # None => b \in executor.todo
        /\ UNCHANGED calls
    BY <1>18, <1>0 DEF CloseNext, OneAtATime, ToUninstall
  <2>2. PICK a \in executor.todo :
          \/ /\ Unload(a)
             /\ executor' = [at |-> "unloading", todo |-> executor.todo \ {a}, call |-> a]
             /\ UNCHANGED metadata
          \/ /\ executor'.at = "failed"
             /\ UNCHANGED <<loaded, metadata>>
          \/ /\ loaded[a] = None
             /\ Forget(a)
             /\ executor'.at = "closing" /\ executor'.todo = executor.todo \ {a}
             /\ UNCHANGED loaded
    BY <1>18 DEF CloseNext, LTypeOK, Executor
  <2>3. a \in Addresses
    BY DEF LTypeOK, Executor
  <2> QED
    BY <2>1, <2>2, <2>3, <1>3 DEF Unload, Forget, LTypeOK
<1>19. CASE Closed
  <2>1. /\ ~mishap /\ AtRest
        /\ \A b \in Addresses : loaded[b] # None => b \in executor.todo
        /\ UNCHANGED <<calls, loaded>>
    BY <1>19, <1>0 DEF Closed, OneAtATime, ToUninstall
  <2>2. \/ /\ loaded[executor.call] = None
           /\ Forget(executor.call)
           /\ executor'.at = "closing" /\ executor'.todo = executor.todo
        \/ /\ executor'.at = "closed" /\ executor'.todo = {} /\ executor.todo = {}
           /\ UNCHANGED metadata
    BY <1>19, <2>1, <1>0 DEF Closed, TornDown, LTypeOK, Executor
  <2> QED
    BY <2>1, <2>2, <1>3 DEF Forget
<1>20. ASSUME UNCHANGED <<loaded, metadata, calls, executor>>, ~mishap
       PROVE  Clean'
  BY <1>20, <1>0, <1>3 DEF OneAtATime, ToUninstall, TornDown
<1>21. ASSUME NEW a \in Addresses, WriteSettings(a)
       PROVE  Clean'
  BY <1>21, <1>20 DEF WriteSettings
<1>22. CASE UNCHANGED languageVars
  BY <1>22, <1>20 DEF languageVars
<1> QED
  BY <1>4, <1>5, <1>6, <1>7, <1>8, <1>9, <1>10, <1>11, <1>12, <1>13, <1>14, <1>15,
     <1>16, <1>17, <1>18, <1>19, <1>21, <1>22
     DEF LNext

LInv == LTypeOK /\ OrphanInv /\ ShutdownInv

LEMMA LInvInit == LInit => LInv
BY LTypeInit
   DEF LInit, LInv, OrphanInv, HeldIsLive, LiveIsHeld, NotYet, ShutdownInv, OneAtATime,
       HasMetadata, TornDown, ToUninstall, Closing, UnderWay, AtRest, NotMade

(***************************************************************************)
(* The neighbourhood manager only reads what the language manager keeps.   *)
(***************************************************************************)
LEMMA NextLanguages == Next => LNext \/ UNCHANGED languageVars
BY DEF Next, Add, Remove, StopSync, Signed, Put, Got, Built, Started, Publish, Join

THEOREM LanguagesInvariant == Spec => []LInv
<1>1. Init => LInv
  BY LInvInit DEF Init
<1>2. LInv /\ [Next]_vars => LInv'
  BY LTypeStep, OrphanStep, ShutdownStep, NextLanguages DEF LInv, vars
<1> QED
  BY <1>1, <1>2, PTL DEF Spec

(***************************************************************************)
(* What the host holds is alive, and what is alive the host holds or       *)
(* another install of the address took its place: uninstall, shutdown and  *)
(* the ways in which an install fails leave no instance that runs on       *)
(* (install, unload, the worker's init timeout).                           *)
(***************************************************************************)
THEOREM NoOrphanCorrect == Spec => []NoOrphan
<1>1. LInv => NoOrphan
  BY DEF LInv, OrphanInv, HeldIsLive, LiveIsHeld, NoOrphan
<1> QED
  BY <1>1, LanguagesInvariant, PTL

(***************************************************************************)
(* When shutdown() is over no language is loaded, if no call overlapped    *)
(* another and no teardown threw: what it goes through is the metadata,    *)
(* and every language that an install loaded has metadata by then.         *)
(***************************************************************************)
THEOREM ShutdownUnloadsCorrect == Spec => []ShutdownUnloads
<1>1. LInv => ShutdownUnloads
  BY DEF LInv, ShutdownInv, ToUninstall, TornDown, Closing, ShutdownUnloads
<1> QED
  BY <1>1, LanguagesInvariant, PTL

-----------------------------------------------------------------------------
(***************************************************************************)
(* The neighbourhood manager.                                              *)
(***************************************************************************)
HandleState == {"none", "private", "creationInitiated", "joinInitiated", "synced"}
ShareAt == {"none", "signing", "putting", "getting", "building", "starting", "done",
            "failed"}

Handle == [state : HandleState, url : Shares \cup {None}, lang : Addresses \cup {None}]

(* The calls before their end, and the perspectives they know by then. *)
Share ==
  [at : ShareAt, uuid : Uuids \cup {None}, lang : Addresses \cup {None},
   url : Shares \cup {None}]

SharesTyped ==
  \A s \in Shares :
    /\ shares[s].at \in {"signing", "putting", "building", "starting"} =>
         shares[s].uuid \in Uuids
    /\ shares[s].at \in {"signing", "putting"} => shares[s].lang \in Addresses
    /\ shares[s].at = "getting" => shares[s].url \in Shares

NTypeOK ==
  /\ handles \in [Uuids -> Handle]
  /\ present \subseteq Uuids
  /\ stored \in [Shares -> Addresses \cup {None}]
  /\ shares \in [Shares -> Share]
  /\ SharesTyped

(***************************************************************************)
(* An expression is stored by the call that publishes it, once.            *)
(***************************************************************************)
StoredOnce ==
  \A s \in Shares : shares[s].at \in {"none", "signing", "putting"} => stored[s] = None

(***************************************************************************)
(* A perspective is Synced on account of a call that is done.              *)
(***************************************************************************)
SyncedByCall ==
  \A u \in Uuids : handles[u].state = "synced" =>
    \E s \in Shares : shares[s].uuid = u /\ shares[s].at = "done"

NInv == NTypeOK /\ StoredOnce /\ SharedCanBeJoined /\ SyncedByCall

(***************************************************************************)
(* The end of both calls keeps the invariant, whatever the handle that is  *)
(* left by the code before it, if that handle's URL can be joined.         *)
(***************************************************************************)
LEMMA WiresInv ==
  ASSUME NInv, NEW s \in Shares, NEW u \in Uuids, NEW h \in Handle, NEW i, NEW here,
         here \subseteq Uuids,
         Wires(s, u, h, i, here),
         shares[s].at \in {"putting", "getting", "building"},
         stored' \in [Shares -> Addresses \cup {None}],
         \A t \in Shares \ {s} : stored'[t] = stored[t],
         stored[s] = None \/ stored'[s] = stored[s],
         present' \subseteq Uuids,
         h.url # None => stored'[h.url] # None /\ stored'[h.url] = h.lang,
         h.state = "synced" => handles[u].state = "synced"
  PROVE  NInv'
<1> USE DEF HandleState, ShareAt
<1>1. PICK at \in {"done", "failed", "starting"}, k \in Handle :
        /\ handles' = [handles EXCEPT ![u] = k]
        /\ shares' = [shares EXCEPT ![s].at = at, ![s].uuid = u]
        /\ k.url = h.url /\ k.lang = h.lang
        /\ k.state = h.state \/ (k.state = "synced" /\ at = "done")
  <2>1. CASE i = None
    <3>1. [h EXCEPT !.state = "synced"] \in Handle
      BY DEF Handle
    <3> QED
      BY <2>1, <3>1 DEF Wires, Handle
  <2>2. CASE i # None
    BY <2>2 DEF Wires
  <2> QED
    BY <2>1, <2>2
<1> DEFINE r == [shares[s] EXCEPT !.at = at, !.uuid = u]
<1>2. /\ r \in Share /\ r.at = at /\ r.uuid = u
      /\ shares' = [shares EXCEPT ![s] = r]
  BY <1>1 DEF NInv, NTypeOK, Share
<1> HIDE DEF r
<1>3. NTypeOK'
  <2>1. shares' \in [Shares -> Share] /\ SharesTyped'
    BY <1>2 DEF NInv, NTypeOK, SharesTyped
  <2>2. handles' \in [Uuids -> Handle]
    BY <1>1 DEF NInv, NTypeOK
  <2> QED
    BY <2>1, <2>2 DEF NTypeOK
<1>4. StoredOnce'
  BY <1>1, <1>2 DEF NInv, NTypeOK, StoredOnce
<1>5. SharedCanBeJoined'
  BY <1>1 DEF NInv, NTypeOK, SharedCanBeJoined, Handle
<1>6. SyncedByCall'
  <2> SUFFICES ASSUME NEW v \in Uuids, handles'[v].state = "synced"
               PROVE  \E t \in Shares : shares'[t].uuid = v /\ shares'[t].at = "done"
    BY DEF SyncedByCall
  <2>1. CASE v = u /\ at = "done"
    BY <2>1, <1>2 DEF NInv, NTypeOK
  <2>2. CASE v # u \/ at # "done"
    <3>1. handles[v].state = "synced"
      BY <2>2, <1>1 DEF NInv, NTypeOK
    <3>2. PICK t \in Shares : shares[t].uuid = v /\ shares[t].at = "done"
      BY <3>1 DEF NInv, SyncedByCall
    <3> QED
      BY <3>2, <1>2 DEF NInv, NTypeOK
  <2> QED
    BY <2>1, <2>2
<1> QED
  BY <1>3, <1>4, <1>5, <1>6 DEF NInv

(***************************************************************************)
(* A call is made, or goes on to something that is not yet its end, or     *)
(* fails, and the handle of one perspective changes with it or not.        *)
(***************************************************************************)
LEMMA ShareGoesOn ==
  ASSUME NInv, NEW s \in Shares, NEW r \in Share,
         shares' = [shares EXCEPT ![s] = r],
         shares[s].at # "done",
         r.at \in {"signing", "putting", "building", "starting"} => r.uuid \in Uuids,
         r.at \in {"signing", "putting"} => r.lang \in Addresses,
         r.at = "getting" => r.url \in Shares,
         r.at \in {"none", "signing", "putting"} =>
           shares[s].at \in {"none", "signing", "putting"},
         NEW v \in Uuids, NEW k \in Handle, handles' = [handles EXCEPT ![v] = k],
         k.url # None => stored[k.url] # None /\ stored[k.url] = k.lang,
         k.state = "synced" =>
           handles[v].state = "synced" \/ (r.at = "done" /\ r.uuid = v),
         present' \subseteq Uuids, UNCHANGED stored
  PROVE  NInv'
<1>1. NTypeOK'
  BY DEF NInv, NTypeOK, SharesTyped
<1>2. StoredOnce'
  BY DEF NInv, NTypeOK, StoredOnce
<1>3. SharedCanBeJoined'
  BY DEF NInv, NTypeOK, SharedCanBeJoined, Handle
<1>4. SyncedByCall'
  <2> SUFFICES ASSUME NEW u \in Uuids, handles'[u].state = "synced"
               PROVE  \E t \in Shares : shares'[t].uuid = u /\ shares'[t].at = "done"
    BY DEF SyncedByCall
  <2>1. CASE handles[u].state = "synced"
    <3>1. PICK t \in Shares : shares[t].uuid = u /\ shares[t].at = "done"
      BY <2>1 DEF NInv, SyncedByCall
    <3> QED
      BY <3>1 DEF NInv, NTypeOK
  <2>2. CASE handles[u].state # "synced"
    BY <2>2 DEF NInv, NTypeOK
  <2> QED
    BY <2>1, <2>2
<1> QED
  BY <1>1, <1>2, <1>3, <1>4 DEF NInv

(***************************************************************************)
(* The same when no handle changes.                                        *)
(***************************************************************************)
LEMMA ShareGoesOnAlone ==
  ASSUME NInv, NEW s \in Shares, NEW r \in Share,
         shares' = [shares EXCEPT ![s] = r],
         shares[s].at # "done",
         r.at \in {"signing", "putting", "building", "starting"} => r.uuid \in Uuids,
         r.at \in {"signing", "putting"} => r.lang \in Addresses,
         r.at = "getting" => r.url \in Shares,
         r.at \in {"none", "signing", "putting"} =>
           shares[s].at \in {"none", "signing", "putting"},
         UNCHANGED <<handles, present, stored>>
  PROVE  NInv'
<1>1. NTypeOK'
  BY DEF NInv, NTypeOK, SharesTyped
<1>2. StoredOnce' /\ SharedCanBeJoined'
  BY DEF NInv, NTypeOK, StoredOnce, SharedCanBeJoined
<1>3. SyncedByCall'
  BY DEF NInv, NTypeOK, SyncedByCall
<1> QED
  BY <1>1, <1>2, <1>3 DEF NInv

LEMMA NInvInit == NInit => NInv
BY DEF NInit, NInv, NTypeOK, SharesTyped, NoHandle, NoShare, Handle, HandleState, Share,
       ShareAt, StoredOnce, SharedCanBeJoined, SyncedByCall

LEMMA NInvStep == NInv /\ [Next]_vars => NInv'
<1> SUFFICES ASSUME NInv, [Next]_vars
             PROVE  NInv'
  OBVIOUS
<1> USE DEF HandleState, ShareAt
<1>1. ASSUME UNCHANGED <<handles, stored, shares>>, present' \subseteq Uuids
      PROVE  NInv'
  BY <1>1 DEF NInv, NTypeOK, SharesTyped, StoredOnce, SharedCanBeJoined, SyncedByCall
<1>2. ASSUME NEW u \in Uuids, Add(u)
      PROVE  NInv'
  <2> DEFINE k == [handles[u] EXCEPT !.state = "private"]
  <2>1. /\ k \in Handle /\ k.url = None /\ k.state = "private"
        /\ handles' = [handles EXCEPT ![u] = k]
    BY <1>2 DEF Add, NoHandle, NInv, NTypeOK, Handle
  <2> HIDE DEF k
  <2>2. NTypeOK'
    BY <1>2, <2>1 DEF Add, NInv, NTypeOK, SharesTyped
  <2>3. StoredOnce' /\ SharedCanBeJoined' /\ SyncedByCall'
    BY <1>2, <2>1
       DEF Add, NInv, NTypeOK, StoredOnce, SharedCanBeJoined, SyncedByCall
  <2> QED
    BY <2>2, <2>3 DEF NInv
<1>3. ASSUME NEW u \in Uuids, Remove(u) \/ StopSync(u)
      PROVE  NInv'
  BY <1>3, <1>1 DEF Remove, StopSync, NInv, NTypeOK
<1>4. ASSUME NEW s \in Shares, Signed(s)
      PROVE  NInv'
  <2> DEFINE u == shares[s].uuid
             k == [handles[u] EXCEPT !.state = "creationInitiated"]
             r(at) == [shares[s] EXCEPT !.at = at]
  <2>1. /\ shares[s].at = "signing" /\ u \in Uuids /\ shares[s].lang \in Addresses
        /\ UNCHANGED <<present, stored>>
    BY <1>4 DEF Signed, NInv, NTypeOK, SharesTyped
  <2>2. /\ k \in Handle /\ k.url = handles[u].url /\ k.lang = handles[u].lang
        /\ k.state # "synced"
    BY <2>1 DEF NInv, NTypeOK, Handle
  <2>3. \A at \in ShareAt :
          /\ r(at) \in Share /\ r(at).at = at /\ r(at).uuid = u
          /\ r(at).lang = shares[s].lang
    BY DEF NInv, NTypeOK, Share
  <2>4. \/ /\ handles' = [handles EXCEPT ![u] = k]
           /\ shares' = [shares EXCEPT ![s] = r("putting")]
        \/ /\ shares' = [shares EXCEPT ![s] = r("failed")]
           /\ UNCHANGED handles
    BY <1>4 DEF Signed
  <2>5. present' \subseteq Uuids /\ SharedCanBeJoined
    BY <2>1 DEF NInv, NTypeOK
  <2> HIDE DEF u, k, r
  <2>6. ASSUME handles' = [handles EXCEPT ![u] = k], shares' = [shares EXCEPT ![s] = r("putting")]
        PROVE  NInv'
    BY <2>1, <2>2, <2>3, <2>5, <2>6, ShareGoesOn DEF SharedCanBeJoined
  <2>7. ASSUME shares' = [shares EXCEPT ![s] = r("failed")], UNCHANGED handles
        PROVE  NInv'
    BY <2>1, <2>3, <2>7, ShareGoesOnAlone
  <2> QED
    BY <2>4, <2>6, <2>7
<1>5. ASSUME NEW s \in Shares, Put(s)
      PROVE  NInv'
  <2> DEFINE u == shares[s].uuid
             a == shares[s].lang
             h == [handles[u] EXCEPT !.url = s, !.lang = a]
             r == [shares[s] EXCEPT !.at = "failed"]
  <2>1. /\ shares[s].at = "putting" /\ u \in Uuids /\ a \in Addresses
        /\ stored[s] = None /\ present \subseteq Uuids /\ UNCHANGED present
    BY <1>5 DEF Put, NInv, NTypeOK, SharesTyped, StoredOnce
  <2>2. /\ h \in Handle /\ h.url = s /\ h.lang = a /\ h.state = handles[u].state
    <3>1. handles[u] \in Handle
      BY <2>1 DEF NInv, NTypeOK
    <3> QED
      BY <2>1, <3>1 DEF Handle
  <2>3. /\ r \in Share /\ r.at = "failed"
    BY DEF NInv, NTypeOK, Share
  <2>4. \/ /\ stored' = [stored EXCEPT ![s] = a]
           /\ Wires(s, u, h, loaded[a], present)
        \/ /\ shares' = [shares EXCEPT ![s] = r]
           /\ UNCHANGED <<handles, stored>>
    BY <1>5 DEF Put
  <2> HIDE DEF h, r
  <2>5. ASSUME stored' = [stored EXCEPT ![s] = a], Wires(s, u, h, loaded[a], present)
        PROVE  NInv'
    <3>1. /\ stored' \in [Shares -> Addresses \cup {None}]
          /\ \A t \in Shares \ {s} : stored'[t] = stored[t]
          /\ stored'[s] = a /\ a # None
      BY <2>1, <2>5, LanguagesAssumption DEF NInv, NTypeOK
    <3> QED
      BY <2>1, <2>2, <2>5, <3>1, WiresInv
  <2>6. ASSUME shares' = [shares EXCEPT ![s] = r], UNCHANGED <<handles, stored>>
        PROVE  NInv'
    BY <2>1, <2>3, <2>6, ShareGoesOnAlone
  <2> QED
    BY <2>4, <2>5, <2>6
<1>6. ASSUME NEW s \in Shares, Got(s)
      PROVE  NInv'
  <2> DEFINE url == shares[s].url
             h == Joined(url)
             r(at, u) == [shares[s] EXCEPT !.at = at, !.uuid = u]
  <2>1. /\ shares[s].at = "getting" /\ url \in Shares /\ UNCHANGED stored
        /\ stored \in [Shares -> Addresses \cup {None}]
    BY <1>6 DEF Got, NInv, NTypeOK, SharesTyped
  <2>2. stored[url] # None =>
          /\ h \in Handle /\ h.url = url /\ h.lang = stored[url]
          /\ h.state = "joinInitiated"
    BY <2>1 DEF Joined, NInv, NTypeOK, Handle
  <2>3. \A at \in ShareAt, u \in Uuids :
          /\ r(at, u) \in Share /\ r(at, u).at = at /\ r(at, u).uuid = u
    BY DEF NInv, NTypeOK, Share
  <2>4. ASSUME shares' = [shares EXCEPT ![s].at = "failed"], UNCHANGED <<handles, present>>
        PROVE  NInv'
    <3> DEFINE f == [shares[s] EXCEPT !.at = "failed"]
    <3>1. /\ f \in Share /\ f.at = "failed"
      BY DEF NInv, NTypeOK, Share
    <3>2. shares' = [shares EXCEPT ![s] = f]
      BY <2>4
    <3> HIDE DEF f
    <3> QED
      BY <2>1, <2>4, <3>1, <3>2, ShareGoesOnAlone
  <2>5. ASSUME stored[url] # None,
               \E u \in Uuids :
                 /\ present' = present \cup {u}
                 /\ \/ /\ handles' = [handles EXCEPT ![u] = Joined(url)]
                       /\ shares' = [shares EXCEPT ![s].at = "building", ![s].uuid = u]
                    \/ Wires(s, u, Joined(url), loaded[stored[url]], present')
        PROVE  NInv'
    <3>1. PICK u \in Uuids :
            /\ present' = present \cup {u}
            /\ \/ /\ handles' = [handles EXCEPT ![u] = h]
                  /\ shares' = [shares EXCEPT ![s] = r("building", u)]
               \/ Wires(s, u, h, loaded[stored[url]], present')
      BY <2>5
    <3>2. present' \subseteq Uuids
      BY <3>1 DEF NInv, NTypeOK
    <3> DEFINE b == r("building", u)
    <3>5. b \in Share /\ b.at = "building" /\ b.uuid = u
      BY <2>3
    <3> HIDE DEF h, b
    <3>3. ASSUME handles' = [handles EXCEPT ![u] = h],
                 shares' = [shares EXCEPT ![s] = b]
          PROVE  NInv'
      BY <2>1, <2>2, <2>5, <3>2, <3>3, <3>5, ShareGoesOn
    <3>4. ASSUME Wires(s, u, h, loaded[stored[url]], present')
          PROVE  NInv'
      BY <2>1, <2>2, <2>5, <3>2, <3>4, WiresInv
    <3> QED
      BY <3>1, <3>3, <3>4 DEF b
  <2> QED
    BY <1>6, <2>4, <2>5 DEF Got
<1>7. ASSUME NEW s \in Shares, Built(s)
      PROVE  NInv'
  <2> DEFINE u == shares[s].uuid
             r == [shares[s] EXCEPT !.at = "failed"]
  <2>1. /\ shares[s].at = "building" /\ u \in Uuids
        /\ UNCHANGED <<present, stored>> /\ present \subseteq Uuids
        /\ handles[u] \in Handle /\ SharedCanBeJoined
        /\ stored \in [Shares -> Addresses \cup {None}]
    BY <1>7 DEF Built, NInv, NTypeOK, SharesTyped
  <2>2. r \in Share /\ r.at = "failed"
    BY DEF NInv, NTypeOK, Share
  <2>3. \/ Wires(s, u, handles[u], Direct, present)
        \/ shares' = [shares EXCEPT ![s] = r] /\ UNCHANGED handles
    BY <1>7 DEF Built
  <2> HIDE DEF r
  <2>4. ASSUME Wires(s, u, handles[u], Direct, present)
        PROVE  NInv'
    BY <2>1, <2>4, WiresInv DEF SharedCanBeJoined
  <2>5. ASSUME shares' = [shares EXCEPT ![s] = r], UNCHANGED handles
        PROVE  NInv'
    BY <2>1, <2>2, <2>5, ShareGoesOnAlone
  <2> QED
    BY <2>3, <2>4, <2>5
<1>8. ASSUME NEW s \in Shares, Started(s)
      PROVE  NInv'
  <2> DEFINE u == shares[s].uuid
             k == [handles[u] EXCEPT !.state = "synced"]
             r(at) == [shares[s] EXCEPT !.at = at]
  <2>1. /\ shares[s].at = "starting" /\ u \in Uuids
        /\ UNCHANGED <<present, stored>> /\ present \subseteq Uuids
        /\ handles[u] \in Handle /\ SharedCanBeJoined
    BY <1>8 DEF Started, NInv, NTypeOK, SharesTyped
  <2>2. k \in Handle /\ k.url = handles[u].url /\ k.lang = handles[u].lang
    BY <2>1 DEF Handle
  <2>3. \A at \in ShareAt : r(at) \in Share /\ r(at).at = at /\ r(at).uuid = u
    BY DEF NInv, NTypeOK, Share
  <2>4. \/ /\ shares' = [shares EXCEPT ![s] = r("done")]
           /\ handles' = [handles EXCEPT ![u] = k]
        \/ shares' = [shares EXCEPT ![s] = r("failed")] /\ UNCHANGED handles
    BY <1>8 DEF Started
  <2> HIDE DEF u, k, r
  <2>5. ASSUME shares' = [shares EXCEPT ![s] = r("done")],
               handles' = [handles EXCEPT ![u] = k]
        PROVE  NInv'
    BY <2>1, <2>2, <2>3, <2>5, ShareGoesOn DEF SharedCanBeJoined
  <2>6. ASSUME shares' = [shares EXCEPT ![s] = r("failed")], UNCHANGED handles
        PROVE  NInv'
    BY <2>1, <2>3, <2>6, ShareGoesOnAlone
  <2> QED
    BY <2>4, <2>5, <2>6
<1>9. ASSUME NEW s \in Shares, NEW u \in Uuids, NEW a \in Addresses, Publish(s, u, a)
      PROVE  NInv'
  <2> DEFINE r == [at |-> "signing", uuid |-> u, lang |-> a, url |-> None]
  <2>1. r \in Share /\ r.at = "signing" /\ r.uuid = u /\ r.lang = a
    BY DEF Share
  <2>2. /\ shares[s].at = "none" /\ shares' = [shares EXCEPT ![s] = r]
        /\ UNCHANGED <<handles, present, stored>>
    BY <1>9 DEF Publish, Sharing
  <2> HIDE DEF r
  <2> QED
    BY <2>1, <2>2, ShareGoesOnAlone
<1>10. ASSUME NEW s \in Shares, NEW url \in Shares, Join(s, url)
       PROVE  NInv'
  <2> DEFINE r == [at |-> "getting", uuid |-> None, lang |-> None, url |-> url]
  <2>1. r \in Share /\ r.at = "getting" /\ r.url = url
    BY DEF Share
  <2>2. /\ shares[s].at = "none" /\ shares' = [shares EXCEPT ![s] = r]
        /\ UNCHANGED <<handles, present, stored>>
    BY <1>10 DEF Join, Sharing
  <2> HIDE DEF r
  <2> QED
    BY <2>1, <2>2, ShareGoesOnAlone
<1>11. CASE UNCHANGED shareVars
  BY <1>11, <1>1 DEF shareVars, NInv, NTypeOK
<1> QED
  BY <1>2, <1>3, <1>4, <1>5, <1>6, <1>7, <1>8, <1>9, <1>10, <1>11 DEF Next, vars

THEOREM NeighbourhoodsInvariant == Spec => []NInv
<1>1. Init => NInv
  BY NInvInit DEF Init
<1> QED
  BY <1>1, NInvStep, PTL DEF Spec

(***************************************************************************)
(* A URL that a perspective shows can be joined: publishFromPerspective    *)
(* sets it when the expression has been put in the content store, and      *)
(* joinFromUrl when it has got it from there.                              *)
(***************************************************************************)
THEOREM SharedCanBeJoinedCorrect == Spec => []SharedCanBeJoined
BY NeighbourhoodsInvariant, PTL DEF NInv

(***************************************************************************)
(* A perspective that one call was made for is Synced only when its engine *)
(* has started, whatever the installs, removals, failures and other calls  *)
(* around it (the end of publishFromPerspective and of joinFromUrl).       *)
(***************************************************************************)
THEOREM SyncedAfterStartCorrect == Spec => []SyncedAfterStart
<1>1. NInv => SyncedAfterStart
  BY DEF NInv, SyncedByCall, SyncedAfterStart, CallsFor
<1> QED
  BY <1>1, NeighbourhoodsInvariant, PTL

(***************************************************************************)
(* What TLC runs is one of the two managers, or both with fewer calls.     *)
(***************************************************************************)
THEOREM RunIsSpec == MSpec => Spec
<1>1. MInit => Init
  BY DEF MInit
<1>2. [MNext]_mvars => [Next]_vars
  BY DEF MNext, mvars, Next
<1> QED
  BY <1>1, <1>2, PTL DEF MSpec, Spec
=============================================================================
