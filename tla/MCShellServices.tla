---------------------------- MODULE MCShellServices ----------------------------
(***************************************************************************)
(* What RDKShell must eventually do, in one small instance: the shell      *)
(* thread serves its callers (ShellRequests), lets the device start        *)
(* (Boot), follows its power state (PowerEvents) and shows what it is      *)
(* asked to (FrameRequests).  A behaviour is one of a single component,    *)
(* the one in focus; the others stay as they are at first.                 *)
(***************************************************************************)
EXTENDS MCShellRequests

CONSTANTS Boots, MaxChanges, MaxKeys, Framerates, MaxScreenCalls

VARIABLES
  focus, \* the component
  boot, store, bshell, sPersistentStoreFirstActivated, sPersistentStoreWaitProcessed,
  sPersistentStorePreLaunchChecked, sFactoryModeStart, graphics, launches,
  power, system, at, m_timer, gSystemServiceConnection, gSystemServiceEventsSubscribed, down, events,
  asked, factory, visible, key, keys, changes, lost, unseen, praced,
  pending, needsScreenshot, gCurrentFramerate, shown, picture, thread, calls, last, overtaken, wanted

BT == INSTANCE Boot WITH plugin <- store, shell <- bshell, requests <- launches
PW == INSTANCE PowerEvents WITH requests <- asked
FR == INSTANCE FrameRequests

bootVars ==
  <<boot, store, bshell, sPersistentStoreFirstActivated, sPersistentStoreWaitProcessed,
    sPersistentStorePreLaunchChecked, sFactoryModeStart, graphics, launches>>
powerVars ==
  <<power, system, at, m_timer, gSystemServiceConnection, gSystemServiceEventsSubscribed, down, events,
    asked, factory, visible, key, keys, changes, lost, unseen, praced>>
frameVars ==
  <<pending, needsScreenshot, gCurrentFramerate, shown, picture, thread, calls, last, overtaken,
    wanted>>

\* Every situation a device may start in.
MCBoots == {b \in [wait : BOOLEAN, mac : BOOLEAN, store : {"absent", "off", "on"},
                   aging : BOOLEAN, mode : BOOLEAN, subSystems : BOOLEAN] : b.mac => ~b.wait}
Unfocused == [wait |-> FALSE, mac |-> FALSE, store |-> "absent", aging |-> FALSE, mode |-> FALSE,
              subSystems |-> FALSE]

ServicesInit ==
  /\ focus \in {"requests", "boot", "power", "frame"}
  /\ Init /\ BT!Init /\ PW!Init /\ FR!Init
  /\ focus # "boot" => boot = Unfocused
  /\ focus # "power" => power = "ON" /\ factory /\ ~system

ServicesNext ==
  \/ focus = "requests" /\ Next /\ UNCHANGED <<focus, bootVars, powerVars, frameVars>>
  \/ focus = "boot" /\ BT!Next /\ UNCHANGED <<focus, vars, powerVars, frameVars>>
  \/ focus = "power" /\ PW!Next /\ UNCHANGED <<focus, vars, bootVars, frameVars>>
  \/ focus = "frame" /\ FR!Next /\ UNCHANGED <<focus, vars, bootVars, powerVars>>

\* The shell thread runs and the framework notifies.  Fairness of ShellRequests says
\* nothing while it is not in focus: only Initialize can happen then, which is not
\* fair.
ServicesSpec ==
  /\ ServicesInit /\ [][ServicesNext]_<<focus, vars, bootVars, powerVars, frameVars>>
  /\ Fairness
  /\ WF_bootVars(focus = "boot" /\ BT!Shell)
  /\ WF_bootVars(focus = "boot" /\ BT!HandleActivated)

------------------------------------------------------------------------------
\* The factory application is decided on before the subsystem that lets graphical
\* plugins start is set, which it is in the end, whatever becomes of the store, and
\* then requested once.
BootInOrder == BT!DecidedBeforeGraphics /\ []BT!RequestedOnce /\ BT!GraphicsComes

\* When all is quiet, a device that is awake shows its application.  The variables of
\* PowerEvents and of Boot have their types.
AwakeIsShown == PW!TypeOK /\ BT!TypeOK /\ PW!AwakeIsShown

\* The screen shows what was asked for last, and a screenshot nothing older than its
\* request, although requests to show something wait for a frame and hiding does not
\* (the exception is named with ShownAsAsked).  The variables of FrameRequests have
\* their types.
ScreenAsAsked == FR!ScreenAsAsked
================================================================================
