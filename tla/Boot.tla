---------------------------------- MODULE Boot ----------------------------------
(***************************************************************************)
(* How RDKShell starts a device: the shell thread decides whether the      *)
(* factory application is to be launched, if need be after waiting for     *)
(* the persistent store, then sets the subsystem that lets graphical       *)
(* plugins start, and then, the mutex released, has the launch requested.  *)
(* The store's plugin, which may be active already, become active at any   *)
(* moment or not exist, and the framework's notification of it are         *)
(* external.                                                               *)
(***************************************************************************)
EXTENDS Naturals

CONSTANT Boots  \* the situations a device may start in, a subset of AllBoots

\* What Initialize and the shell thread find: RDKSHELL_WAIT_FOR_PERSISTENT_STORE,
\* which a factory's MAC address overrides, the store with its values, and whether
\* the framework has subsystems to set.
AllBoots == {b \in [wait : BOOLEAN, mac : BOOLEAN, store : {"absent", "off", "on"},
                    aging : BOOLEAN, mode : BOOLEAN, subSystems : BOOLEAN] : b.mac => ~b.wait}

VARIABLES
  boot,      \* the situation
  plugin,    \* PersistentStore: "absent", "off", active but not yet "notified", "on"
  shell,     \* the shell thread: "start", has "decided", is to "launch", or in its "loop"
  sPersistentStoreFirstActivated, sPersistentStoreWaitProcessed, sPersistentStorePreLaunchChecked,
  sFactoryModeStart,
  graphics,  \* the subsystem is set
  requests   \* launches of the factory application requested

flags == <<sPersistentStoreFirstActivated, sPersistentStoreWaitProcessed,
           sPersistentStorePreLaunchChecked>>
decision == <<sFactoryModeStart, graphics, requests>>
vars == <<boot, plugin, shell, flags, decision>>

ShellStates == {"start", "decided", "launch", "loop"}

TypeOK ==
  /\ boot \in Boots /\ plugin \in {"absent", "off", "notified", "on"} /\ shell \in ShellStates
  /\ {sPersistentStoreFirstActivated, sPersistentStoreWaitProcessed,
      sPersistentStorePreLaunchChecked, sFactoryModeStart, graphics} \subseteq BOOLEAN
  /\ requests \in Nat

Init ==
  /\ boot \in Boots /\ plugin = boot.store /\ shell = "start"
  /\ sPersistentStoreFirstActivated = FALSE /\ sPersistentStoreWaitProcessed = FALSE
  /\ sPersistentStorePreLaunchChecked = FALSE /\ sFactoryModeStart = FALSE
  /\ graphics = FALSE /\ requests = 0

\* Two reads of the store, each of which may fail, if it has been seen active.
checkForBootupFactoryAppLaunch(seen) ==
  {seen /\ ((boot.aging /\ agingRead) \/ (boot.mode /\ modeRead)) : agingRead, modeRead \in BOOLEAN}

\* The decision; without subsystems nothing is decided, and nothing to be launched.
Decide(launch) ==
  IF boot.subSystems
  THEN sFactoryModeStart' = (sFactoryModeStart \/ launch) /\ shell' = "decided"
  ELSE UNCHANGED sFactoryModeStart /\ shell' = "loop"

\* Mutant of SetGraphics: a wait is not marked as over.
SetGraphicsAgain ==
  /\ shell = "decided" /\ requests < 2
  /\ graphics' = TRUE
  /\ shell' = IF sFactoryModeStart THEN "launch" ELSE "loop"
  /\ UNCHANGED <<boot, plugin, flags, sFactoryModeStart, requests>>

\* PLATFORM and GRAPHICS are set; a wait is over.
SetGraphics ==
  /\ shell = "decided"
  /\ graphics' = TRUE
  /\ sPersistentStoreWaitProcessed' = (sPersistentStoreWaitProcessed \/ boot.wait)
  /\ shell' = IF sFactoryModeStart THEN "launch" ELSE "loop"
  /\ UNCHANGED <<boot, plugin, sPersistentStoreFirstActivated, sPersistentStorePreLaunchChecked,
                 sFactoryModeStart, requests>>

\* Without the mutex: a thread is started that requests the launch.
RequestLaunch ==
  /\ shell = "launch" /\ shell' = "loop" /\ requests' = requests + 1
  /\ UNCHANGED <<boot, plugin, flags, sFactoryModeStart, graphics>>

\* The shell thread before its loop: a device that does not wait decides.
ShellStart ==
  /\ shell = "start"
  /\ IF boot.wait THEN shell' = "loop" /\ UNCHANGED sFactoryModeStart
     ELSE \E launch \in checkForBootupFactoryAppLaunch(sPersistentStoreFirstActivated) :
            Decide(boot.mac \/ launch)
  /\ UNCHANGED <<boot, plugin, flags, graphics, requests>>

\* Once, look whether the store was active before anybody could be told.  If
\* there is no such plugin the state that is compared was never assigned.
PreLaunchCheck ==
  /\ sPersistentStorePreLaunchChecked' = TRUE
  /\ \E active \in IF plugin = "absent" THEN BOOLEAN ELSE {plugin # "off"} :
       sPersistentStoreFirstActivated' =
         (sPersistentStoreFirstActivated \/ (~sPersistentStorePreLaunchChecked /\ active))

\* The store is there: a device that waited for it decides.
WaitOver ==
  /\ \E launch \in checkForBootupFactoryAppLaunch(TRUE) : Decide(launch)
  /\ sPersistentStoreWaitProcessed' = ~boot.subSystems

\* The part of a frame that looks at the store.
Frame ==
  /\ shell = "loop"
  /\ ~sPersistentStorePreLaunchChecked \/ (boot.wait /\ ~sPersistentStoreWaitProcessed)
  /\ PreLaunchCheck
  /\ IF boot.wait /\ ~sPersistentStoreWaitProcessed /\ sPersistentStoreFirstActivated'
     THEN WaitOver
     ELSE UNCHANGED <<shell, sFactoryModeStart, sPersistentStoreWaitProcessed>>
  /\ UNCHANGED <<boot, plugin, graphics, requests>>

\* The store becomes active; handleActivated is told.
StoreActivates ==
  /\ plugin = "off" /\ plugin' = "notified"
  /\ UNCHANGED <<boot, shell, flags, decision>>

HandleActivated ==
  /\ plugin = "notified" /\ plugin' = "on"
  /\ sPersistentStoreFirstActivated' = TRUE
  /\ UNCHANGED <<boot, shell, sPersistentStoreWaitProcessed, sPersistentStorePreLaunchChecked, decision>>

Shell == ShellStart \/ SetGraphics \/ RequestLaunch \/ Frame

Next == Shell \/ StoreActivates \/ HandleActivated

------------------------------------------------------------------------------
\* No graphical plugin starts before it is decided what the device is to run: once
\* the subsystem is set, the mode does not change.  The request to launch is made
\* later, so a resident application that starts in between has nothing but the mode
\* to be held back by (ignoreResidentAppLaunch).
DecidedBeforeGraphics == [][graphics => UNCHANGED sFactoryModeStart]_vars

\* The factory application is requested once, in the mode only and after the
\* subsystem is set, however often the loop looks at the store.
RequestedOnce ==
  /\ requests = IF sFactoryModeStart /\ shell = "loop" THEN 1 ELSE 0
  /\ requests > 0 => graphics

\* A device whose store is or becomes active gets its graphical plugins, whether
\* the store was active before RDKShell could be told, while it looked, or later,
\* and the factory application if it was decided on.
GraphicsComes ==
  /\ (boot.subSystems /\ plugin \in {"notified", "on"}) ~> graphics
  /\ sFactoryModeStart ~> requests > 0
================================================================================
