------------------------------ MODULE FactoryMode ------------------------------
(***************************************************************************)
(* RDKShell's two exclusive applications: the factory application, which   *)
(* tests a device before it leaves the factory, and the resident           *)
(* application, the user interface of a device at home.                    *)
(*                                                                         *)
(* launchFactoryApp, launchResidentApp and what leads to them (toggle, the *)
(* shortcut, exitAgingMode, easter eggs, a power-down) run on threads of   *)
(* their own, against activations of the resident application that         *)
(* nobody asked RDKShell for.  They share five variables without a lock.   *)
(* The shell thread has decided at boot whether the device is in factory   *)
(* mode (module Boot).                                                     *)
(*                                                                         *)
(* External: Thunder (activate, deactivate, notifications, subsystems) and *)
(* the persistent store; each call to either may fail.  launch and destroy *)
(* of one application are in AppLifecycle and take two steps here.         *)
(***************************************************************************)
EXTENDS Naturals, Sequences, FiniteSets

CONSTANTS
  Threads,        \* the threads on which calls and requests run
  FactoryAppUrl,  \* RDKSHELL_FACTORY_APP_URL is set
  MaxCalls,       \* bound on the calls from outside
  MaxActivations, \* bound on the activations of ResidentApp from outside
  sFactoryModeBlockResidentApp, \* RDKSHELL_BLOCK_RESIDENTAPP_FACTORYMODE is set
  mEnableEasterEggs, \* easter eggs are enabled
  Failures        \* {FALSE}, or BOOLEAN if Thunder or the store may fail, once

VARIABLES
  app,       \* Thunder's state of "resident" and of "factory": "off", "starting", "on"
  sFactoryAppLaunchStatus, sFactoryModeStart, sResidentAppFirstActivated, sForceResidentAppLaunch,
  store,     \* the values in the persistent store
  eggs,      \* the easter eggs that leave the aging mode are registered
  spawned,   \* how many threads launchRequestThread has started that have not run yet
  call,      \* what each thread does
  calls, activations, \* calls and activations from outside so far
  overlap,   \* history: a call came while another or a request was under way
  failed,    \* history: Thunder or the store failed, or an application went by itself
  exempt     \* history: the resident application was let pass although the factory
             \* application had been launched, as the first time or as forced

decided == <<sFactoryModeStart, sResidentAppFirstActivated>>
modes   == <<sFactoryAppLaunchStatus, decided, sForceResidentAppLaunch>>
bounds == <<calls, activations, overlap, exempt>>
vars == <<app, modes, store, eggs, spawned, call, bounds, failed>>

Apps == {"resident", "factory"}
Idle == [pc |-> "idle", nokill |-> FALSE, startup |-> FALSE, toggled |-> FALSE,
         todo |-> <<>>, then |-> "idle"]
Entries == {"launchFactoryApp", "launchFactoryAppShortcut", "launchResidentApp", "toggleFactoryApp",
            "exitAgingMode", "destroyFactory", "deactivateresidentapp"}
Requests == {"destroyResident", "bootFactory"}

TypeOK ==
  /\ app \in [Apps -> {"off", "starting", "on"}]
  /\ sFactoryAppLaunchStatus \in {"NOTLAUNCHED", "STARTED", "COMPLETED"}
  /\ {sFactoryModeStart, sResidentAppFirstActivated, sForceResidentAppLaunch, eggs, overlap, failed, exempt} \subseteq BOOLEAN
  /\ store \in [AgingState : BOOLEAN, FactoryMode : BOOLEAN, AllowExit : BOOLEAN, ToFacFlag : BOOLEAN]
  /\ spawned \in [Requests -> Nat]
  /\ \A t \in Threads : /\ call[t].todo \in Seq(Apps)
                        /\ call[t].pc = "idle" => call[t] = Idle
                        /\ call[t].pc \in {"destroy", "destroyed"} <=> call[t].todo # <<>>
  /\ calls \in 0 .. MaxCalls /\ activations \in 0 .. MaxActivations

\* The shell thread has decided and lets graphical plugins start (module Boot).
\* AllowExit and ToFacFlag only let a call through and are set; reading them may
\* fail.
Init ==
  /\ app = [a \in Apps |-> "off"]
  /\ sFactoryAppLaunchStatus = "NOTLAUNCHED"
  /\ sFactoryModeStart \in BOOLEAN
  /\ sResidentAppFirstActivated = FALSE /\ sForceResidentAppLaunch = FALSE
  /\ \E aging \in {FALSE, sFactoryModeStart} :
       store = [AgingState |-> aging, FactoryMode |-> sFactoryModeStart,
                AllowExit |-> TRUE, ToFacFlag |-> TRUE]
  /\ eggs = FALSE
  /\ spawned = [destroyResident |-> 0, bootFactory |-> IF sFactoryModeStart THEN 1 ELSE 0]
  /\ call = [t \in Threads |-> Idle] /\ calls = 0 /\ activations = 0
  /\ overlap = FALSE /\ failed = FALSE /\ exempt = FALSE

Goto(t, from, to) ==
  /\ call[t].pc = from
  /\ call' = [call EXCEPT ![t] = IF to = "idle" THEN Idle ELSE [@ EXCEPT !.pc = to]]

\* The outcome of a call to the store or to Thunder; one failure is allowed.
Fails(bad) == bad \in Failures /\ (bad => ~failed) /\ failed' = (failed \/ bad)

\* gActivePluginsData lists an application from Initialize to Deinitialized.
Listed(a) == app[a] # "off"

Quiet == /\ \A t \in Threads : call[t] = Idle
         /\ \A r \in Requests : spawned[r] = 0
         /\ \A a \in Apps : app[a] # "starting"

------------------------------------------------------------------------------
(***************************************************************************)
(* The resident application's activation, notified twice.                  *)
(***************************************************************************)

\* Mutant of ignoreResidentAppLaunch: the mode the device started in is forgotten.
ignoreStarted ==
  /\ sFactoryModeBlockResidentApp /\ ~sForceResidentAppLaunch
  /\ sResidentAppFirstActivated /\ sFactoryAppLaunchStatus # "NOTLAUNCHED"

ignoreResidentAppLaunch ==
  /\ sFactoryModeBlockResidentApp /\ ~sForceResidentAppLaunch
  /\ IF sResidentAppFirstActivated THEN sFactoryAppLaunchStatus # "NOTLAUNCHED"
                                   ELSE sFactoryModeStart

\* Thunder activates ResidentApp and tells RDKShell that it initialises (its
\* display is in ShellRequests).
HandleInitialize ==
  /\ app["resident"] = "off"
  /\ app' = [app EXCEPT !["resident"] = "starting"]

\* It is active: an application to be ignored is destroyed on a thread of its own.
HandleActivated ==
  /\ app["resident"] = "starting"
  /\ app' = [app EXCEPT !["resident"] = "on"]
  /\ sResidentAppFirstActivated' = ((sFactoryModeBlockResidentApp /\ ~sForceResidentAppLaunch)
                                      \/ sResidentAppFirstActivated)
  /\ spawned' = IF ignoreResidentAppLaunch THEN [spawned EXCEPT !["destroyResident"] = @ + 1]
                                           ELSE spawned
  /\ exempt' = (exempt \/ (/\ sFactoryAppLaunchStatus # "NOTLAUNCHED"
                           /\ sForceResidentAppLaunch \/ (~sResidentAppFirstActivated /\ ~sFactoryModeStart)))
  /\ UNCHANGED <<sFactoryAppLaunchStatus, sFactoryModeStart, sForceResidentAppLaunch, store, eggs,
                 call, calls, activations, overlap, failed>>

\* Somebody else activates it, or an application goes without a destroy.
ActivateOutside ==
  /\ activations < MaxActivations /\ activations' = activations + 1
  /\ HandleInitialize
  /\ UNCHANGED <<modes, store, eggs, spawned, call, calls, overlap, exempt, failed>>

DeactivateOutside(a) ==
  /\ Fails(TRUE)
  /\ app[a] = "on" /\ app' = [app EXCEPT ![a] = "off"]
  /\ UNCHANGED <<modes, store, eggs, spawned, call, bounds>>

\* A flag of the store, read with a call that may fail.
Reads(key, value) == \E bad \in Failures : value = (~bad /\ store[key])

------------------------------------------------------------------------------
(***************************************************************************)
(* The calls.  A call is a record: where it stands, its parameters, the    *)
(* applications it has still to destroy and where it goes on then.         *)
(***************************************************************************)

\* How a request starts.
Entry(r) ==
  CASE r = "destroyFactory"  -> [Idle EXCEPT !.pc = "destroy", !.todo = <<"factory">>]
    [] r = "destroyResident" -> [Idle EXCEPT !.pc = "destroy", !.todo = <<"resident">>]
    [] r = "bootFactory" -> [Idle EXCEPT !.pc = "launchFactoryApp", !.nokill = sFactoryModeBlockResidentApp]
    [] OTHER -> [Idle EXCEPT !.pc = r]

\* A call from outside: a JSON-RPC method, or the System plugin's power-down.
CallBegin(t) ==
  /\ call[t] = Idle /\ calls < MaxCalls /\ calls' = calls + 1
  /\ \E r \in Entries, startup \in BOOLEAN :
       /\ startup => r = "launchFactoryApp"
       /\ call' = [call EXCEPT ![t] = [Entry(r) EXCEPT !.startup = startup]]
  /\ overlap' = (overlap \/ ~Quiet)
  /\ UNCHANGED <<app, modes, store, eggs, spawned, activations, exempt, failed>>

\* An easter egg starts a request on a thread of its own, if it says so after
\* writing values into the store.
onEasterEgg(t) ==
  /\ mEnableEasterEggs /\ call[t] = Idle /\ calls < MaxCalls /\ calls' = calls + 1
  /\ \E r \in Entries \ {"destroyFactory"} : call' = [call EXCEPT ![t] = Entry(r)]
  /\ store' \in {[store EXCEPT !.AgingState = aging] : aging \in BOOLEAN}
  /\ overlap' = (overlap \/ ~Quiet)
  /\ UNCHANGED <<app, modes, eggs, spawned, activations, exempt, failed>>

\* A thread started by launchRequestThread gets to run.
launchRequestThread(t, r) ==
  /\ call[t] = Idle /\ spawned[r] > 0
  /\ spawned' = [spawned EXCEPT ![r] = @ - 1]
  /\ call' = [call EXCEPT ![t] = Entry(r)]
  /\ overlap' = (overlap \/ (r = "bootFactory" /\ \E u \in Threads : call[u] # Idle))
  /\ UNCHANGED <<app, modes, store, eggs, calls, activations, exempt, failed>>

------------------------------------------------------------------------------
(***************************************************************************)
(* destroyWrapper, for the applications in todo.                           *)
(***************************************************************************)

BeingLaunched(a) == a = "factory" /\ \E t \in Threads : call[t].pc = "launching"
BeingDestroyed(a) == \E t \in Threads : call[t].pc = "destroyed" /\ Head(call[t].todo) = a

\* Go on to the next application or, after the last one, to where the call goes on.
DestroyNext(t, todo, then) ==
  call' = [call EXCEPT ![t] = IF todo # <<>> THEN [@ EXCEPT !.pc = "destroy", !.todo = todo, !.then = then]
                              ELSE IF then = "idle" THEN Idle
                              ELSE [@ EXCEPT !.pc = then, !.todo = <<>>, !.then = "idle"]]

Skip(t) == DestroyNext(t, Tail(call[t].todo), call[t].then)

\* Deactivate the application.  It is refused while it is being launched, and
\* Thunder may refuse one that is not active or fail.
DestroyDeactivate(t) ==
  /\ call[t].pc = "destroy"
  /\ LET a == Head(call[t].todo) IN
       \/ BeingLaunched(a) /\ Skip(t) /\ UNCHANGED <<app, failed>>
       \/ ~BeingLaunched(a) /\ app[a] = "off" /\ Skip(t) /\ UNCHANGED <<app, failed>>
       \/ ~BeingLaunched(a) /\ app[a] = "on" /\ Skip(t) /\ Fails(TRUE) /\ UNCHANGED app
       \/ /\ ~BeingLaunched(a) /\ app[a] # "starting"
          /\ app' = [app EXCEPT ![a] = "off"]
          /\ call' = [call EXCEPT ![t].pc = "destroyed"] /\ UNCHANGED failed
  /\ UNCHANGED <<modes, store, eggs, spawned, bounds>>

\* It is gone.
DestroyDone(t) ==
  /\ call[t].pc = "destroyed" /\ Skip(t)
  /\ IF Head(call[t].todo) = "factory"
     THEN eggs' = FALSE /\ sFactoryModeStart' = FALSE /\ sFactoryAppLaunchStatus' = "NOTLAUNCHED"
     ELSE UNCHANGED <<eggs, sFactoryModeStart, sFactoryAppLaunchStatus>>
  /\ UNCHANGED <<app, sResidentAppFirstActivated, sForceResidentAppLaunch, store, spawned, bounds,
                 failed>>

\* killAllApps destroys what getState lists: the active applications whose
\* own state could be read.
killAllApps(t, more, then, bad) ==
  \E list \in {<<>>, <<"resident">>, <<"factory">>, <<"resident", "factory">>} :
    LET active == {a \in Apps : app[a] = "on"}
        listed == {list[i] : i \in DOMAIN list}
    IN  /\ listed \subseteq active /\ Fails(bad \/ listed # active)
        /\ DestroyNext(t, list \o more, then)

------------------------------------------------------------------------------
(***************************************************************************)
(* launchFactoryAppWrapper and what leads to it.                           *)
(***************************************************************************)

\* The check of the status; the write of it is the next step.
FactoryCheck(t) ==
  /\ Goto(t, "launchFactoryApp", IF sFactoryAppLaunchStatus = "NOTLAUNCHED" THEN "started" ELSE "idle")
  /\ UNCHANGED <<app, modes, store, eggs, spawned, bounds, failed>>

FactoryStarted(t) ==
  /\ Goto(t, "started", "check")
  /\ sFactoryAppLaunchStatus' = "STARTED"
  /\ UNCHANGED <<app, decided, sForceResidentAppLaunch, store, eggs, spawned, bounds, failed>>

\* Give up.
FactoryFails(t, from) ==
  /\ Goto(t, from, "idle")
  /\ sFactoryAppLaunchStatus' = "NOTLAUNCHED"

\* The application may go on: at startup only on a device that is aging, and
\* never without a URL.
FactoryMayGo(t, bad) == (call[t].startup => store.AgingState /\ ~bad) /\ FactoryAppUrl

\* If it may go on, everything else goes.
FactoryKill(t) ==
  /\ call[t].pc = "check"
  /\ \E bad \in Failures :
       IF FactoryMayGo(t, bad)
       THEN /\ killAllApps(t, IF call[t].nokill THEN <<>> ELSE <<"resident">>, "launch", FALSE)
            /\ UNCHANGED sFactoryAppLaunchStatus
       ELSE FactoryFails(t, "check") /\ Fails(bad)
  /\ UNCHANGED <<app, decided, sForceResidentAppLaunch, store, eggs, spawned, bounds>>

\* launchWrapper refuses an application that is being destroyed.
FactoryLaunch(t) ==
  /\ \/ BeingDestroyed("factory") /\ FactoryFails(t, "launch")
     \/ ~BeingDestroyed("factory") /\ Goto(t, "launch", "launching") /\ UNCHANGED sFactoryAppLaunchStatus
  /\ UNCHANGED <<app, decided, sForceResidentAppLaunch, store, eggs, spawned, bounds, failed>>

FactoryLaunched(t) ==
  /\ \/ /\ Goto(t, "launching", "done") /\ app' = [app EXCEPT !["factory"] = "on"]
        /\ UNCHANGED <<sFactoryAppLaunchStatus, failed>>
     \/ FactoryFails(t, "launching") /\ Fails(TRUE) /\ UNCHANGED app
  /\ UNCHANGED <<decided, sForceResidentAppLaunch, store, eggs, spawned, bounds>>

\* Easter eggs to leave, the mode for the next boot, and the status.
FactoryDone(t) ==
  /\ Goto(t, "done", "idle")
  /\ eggs' = TRUE /\ sFactoryAppLaunchStatus' = "COMPLETED"
  /\ \E mode, allow \in Failures :
       /\ Fails(mode \/ allow)
       /\ store' = [store EXCEPT !.FactoryMode = @ \/ ~mode, !.AllowExit = @ \/ ~allow]
  /\ UNCHANGED <<app, decided, sForceResidentAppLaunch, spawned, bounds>>

\* The shortcut: not while the application runs, and only in the right mode.
launchFactoryAppShortcut(t) ==
  /\ \E bad \in Failures :
       LET go == ~Listed("factory") /\ ~bad /\ store.ToFacFlag
       IN  /\ Goto(t, "launchFactoryAppShortcut", IF go THEN "launchFactoryApp" ELSE "idle")
           /\ Fails(bad)
  /\ UNCHANGED <<app, modes, store, eggs, spawned, bounds>>

------------------------------------------------------------------------------
(***************************************************************************)
(* launchResidentAppWrapper and what leads to it.                          *)
(***************************************************************************)

\* An early return: toggle takes back the force it has set.
ResidentReturn(t, from) ==
  /\ Goto(t, from, "idle")
  /\ sForceResidentAppLaunch' = (sForceResidentAppLaunch /\ ~call[t].toggled)

\* Nothing to do unless the factory application runs, and it may not be left
\* while aging nor unless the store allows it.  Then everything goes, the
\* factory application tried a second time.
ResidentKill(t) ==
  /\ call[t].pc = "launchResidentApp"
  /\ \E aging, allow \in BOOLEAN :
       /\ Reads("AgingState", aging) /\ Reads("AllowExit", allow)
       /\ LET bad == aging # store.AgingState \/ allow # store.AllowExit
          IN  IF Listed("factory") /\ ~aging /\ allow
              THEN killAllApps(t, <<"factory">>, "force", bad) /\ UNCHANGED sForceResidentAppLaunch
              ELSE ResidentReturn(t, "launchResidentApp") /\ Fails(bad)
  /\ UNCHANGED <<app, sFactoryAppLaunchStatus, decided, store, eggs, spawned, bounds>>

ResidentForce(t) ==
  /\ Goto(t, "force", "activate")
  /\ sForceResidentAppLaunch' = TRUE
  /\ UNCHANGED <<app, sFactoryAppLaunchStatus, decided, store, eggs, spawned, bounds, failed>>

\* Activate ResidentApp, which may fail twice or be active already.
ResidentActivate(t) ==
  /\ Goto(t, "activate", "activating")
  /\ \/ app["resident"] # "off" /\ UNCHANGED <<app, failed>>
     \/ Fails(TRUE) /\ UNCHANGED app
     \/ HandleInitialize /\ UNCHANGED failed
  /\ UNCHANGED <<modes, store, eggs, spawned, bounds>>

\* activate has returned: visibility and URL (not modelled), the mode for the
\* next boot, and the end of the force.
ResidentDone(t) ==
  /\ app["resident"] # "starting"
  /\ Goto(t, "activating", "idle")
  /\ \E bad \in Failures : Fails(bad) /\ store' = [store EXCEPT !.FactoryMode = @ /\ bad]
  /\ sForceResidentAppLaunch' = FALSE
  /\ UNCHANGED <<app, sFactoryAppLaunchStatus, decided, eggs, spawned, bounds>>

toggleFactoryApp(t) ==
  /\ call[t].pc = "toggleFactoryApp"
  /\ IF Listed("factory")
     THEN /\ call' = [call EXCEPT ![t].pc = "launchResidentApp", ![t].toggled = TRUE]
          /\ sForceResidentAppLaunch' = TRUE
     ELSE /\ Goto(t, "toggleFactoryApp", "launchFactoryApp")
          /\ UNCHANGED sForceResidentAppLaunch
  /\ UNCHANGED <<app, sFactoryAppLaunchStatus, decided, store, eggs, spawned, bounds, failed>>

\* Only a device that is aging can leave the aging mode.
exitAgingMode(t) ==
  /\ \E bad, unset \in Failures :
       /\ Goto(t, "exitAgingMode", IF ~bad /\ store.AgingState THEN "launchResidentApp" ELSE "idle")
       /\ store' = [store EXCEPT !.AgingState = @ /\ (bad \/ unset)]
       /\ Fails(bad \/ unset)
  /\ UNCHANGED <<app, modes, eggs, spawned, bounds>>

deactivateresidentapp(t) ==
  /\ app["resident"] # "starting"
  /\ Goto(t, "deactivateresidentapp", "idle")
  /\ \/ app' = [app EXCEPT !["resident"] = "off"] /\ UNCHANGED failed
     \/ Fails(TRUE) /\ UNCHANGED app
  /\ UNCHANGED <<modes, store, eggs, spawned, bounds>>

------------------------------------------------------------------------------
Request(t) ==
  \/ \E r \in Requests : launchRequestThread(t, r)
  \/ DestroyDeactivate(t) \/ DestroyDone(t)
  \/ FactoryCheck(t) \/ FactoryStarted(t) \/ FactoryKill(t) \/ FactoryLaunch(t)
  \/ FactoryLaunched(t) \/ FactoryDone(t) \/ launchFactoryAppShortcut(t)
  \/ ResidentKill(t) \/ ResidentForce(t) \/ ResidentActivate(t)
  \/ ResidentDone(t) \/ toggleFactoryApp(t) \/ exitAgingMode(t) \/ deactivateresidentapp(t)

Next ==
  \/ \E t \in Threads : CallBegin(t) \/ onEasterEgg(t) \/ Request(t)
  \/ HandleActivated \/ ActivateOutside \/ \E a \in Apps : DeactivateOutside(a)

Spec == Init /\ [][Next]_vars

------------------------------------------------------------------------------
(***************************************************************************)
(* Properties.                                                             *)
(***************************************************************************)

\* A launch of the factory application that has started is being worked on: no
\* way out of launchFactoryAppWrapper leaves STARTED behind, which would refuse
\* every later launch and every resident application.  Two launches at once
\* write the status in any order.
StartedHasCall ==
  sFactoryAppLaunchStatus = "STARTED" =>
    \E t \in Threads : call[t].pc \in {"check", "launch", "launching", "done"}
                       \/ call[t].then = "launch"

\* While the resident application's launch is forced there is a call that takes
\* the force back, although toggle and the call nested in it both set it.
ForceHasCall ==
  sForceResidentAppLaunch =>
    \E t \in Threads : call[t].toggled \/ call[t].pc \in {"activate", "activating"}

\* On a device that blocks the resident application in factory mode the two
\* never end up running side by side, whenever and however often somebody
\* activates ResidentApp: at boot because the decision precedes the subsystem,
\* later because of the status.  Excepted are two calls at once, failures, and
\* two activations that the code lets pass: the very first one if it comes after
\* the factory application, and one in the moment in which toggle forces an exit
\* that is then refused.
FactoryExcludesResident ==
  Quiet /\ sFactoryModeBlockResidentApp /\ ~overlap /\ ~failed /\ ~exempt =>
    ~(app["factory"] = "on" /\ app["resident"] = "on")

\* When all is quiet the status, the easter eggs that leave the mode and the mode
\* kept for the next boot agree.
FactoryModeAgrees ==
  Quiet /\ ~overlap /\ ~failed =>
    /\ eggs <=> sFactoryAppLaunchStatus = "COMPLETED"
    /\ eggs => store.FactoryMode
================================================================================
