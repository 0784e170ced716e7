------------------------------- MODULE MCAppFlows -------------------------------
(***************************************************************************)
(* The flows of applications through RDKShell in one small instance:       *)
(* launch, suspend and destroy of a plugin (AppLifecycle), the factory and *)
(* the resident application (FactoryMode), focus and hibernation           *)
(* (Hibernation), applications that are not plugins (DacApps), the         *)
(* geometry of clients (Geometry), and the methods that take a list        *)
(* (ListMethods).  They share no state that they do not model themselves,  *)
(* so a behaviour is one of a single component, the one that has the focus *)
(* of the check; the others stay as they are at first.                     *)
(***************************************************************************)
EXTENDS AppLifecycle, Sequences
LOCAL INSTANCE TLC

CONSTANTS
  FactoryThreads, FactoryAppUrl, MaxFactoryCalls, MaxActivations,
  sFactoryModeBlockResidentApp, mEnableEasterEggs, Failures,
  Focusers, Hibernators, HibApps, Natives, NoApp, MaxHibCalls,
  DacThreads, Clients, Dac, MaxDacCalls, Slow,
  Callers, Displays, MaxGeometryCalls,
  Keys, Retry, MaxList

VARIABLES
  focus, \* the component
  app, sFactoryAppLaunchStatus, sFactoryModeStart, sResidentAppFirstActivated,
  sForceResidentAppLaunch, store, eggs, spawned, fcall, fcalls, activations, foverlap, failed, exempt,
  hcall, focused, hstate, hibernated, told, gSuspendedOrHibernatedApplications,
  gHibernateBlocked, hcalls, hoverlap, restored, misled,
  dcall, display, mime, visible, container, session, change, appStateMap, woken, dcalls, last,
  live, geometry, alter, made, given, contended,
  list, checked

FM == INSTANCE FactoryMode WITH Threads <- FactoryThreads, MaxCalls <- MaxFactoryCalls,
                                call <- fcall, calls <- fcalls, overlap <- foverlap
HB == INSTANCE Hibernation WITH Apps <- HibApps, call <- hcall, calls <- hcalls, overlap <- hoverlap, state <- hstate
DA == INSTANCE DacApps
GE == INSTANCE Geometry WITH change <- alter
LM == INSTANCE ListMethods

factoryVars ==
  <<app, sFactoryAppLaunchStatus, sFactoryModeStart, sResidentAppFirstActivated,
    sForceResidentAppLaunch, store, eggs, spawned, fcall, fcalls, activations, foverlap, failed,
    exempt>>
hibVars ==
  <<hcall, focused, hstate, hibernated, told, gSuspendedOrHibernatedApplications,
    gHibernateBlocked, hcalls, hoverlap, restored, misled>>
dacVars ==
  <<dcall, display, mime, visible, container, session, change, appStateMap, woken, dcalls, last>>
geometryVars == <<live, geometry, alter, made, given, contended>>
listVars == <<list, checked>>
flowVars == <<focus, vars, factoryVars, hibVars, dacVars, geometryVars, listVars>>

FlowsInit ==
  /\ focus \in {"app", "factory", "hibernation", "dac", "geometry", "list"}
  /\ HB!Init /\ DA!Init /\ GE!Init
  /\ Init /\ (focus # "app" => state = "absent")
  /\ FM!Init /\ (focus # "factory" => ~sFactoryModeStart)
  /\ focus # "hibernation" => focused = NoApp
  /\ checked = FALSE
  /\ list \in IF focus = "list" THEN UNION {[1 .. n -> LM!KeyEntries] : n \in 0 .. MaxList} ELSE {<<>>}

\* The threads that set the focus are alike.
Symmetry == Permutations(Focusers)

\* A list is worked through.
WorkThrough == ~checked /\ checked' = TRUE /\ UNCHANGED list

FlowsNext ==
  \/ focus = "app" /\ Next /\ UNCHANGED <<focus, factoryVars, hibVars, dacVars, geometryVars, listVars>>
  \/ focus = "factory" /\ FM!Next /\ UNCHANGED <<focus, vars, hibVars, dacVars, geometryVars, listVars>>
  \/ focus = "hibernation" /\ HB!Next /\ UNCHANGED <<focus, vars, factoryVars, dacVars, geometryVars, listVars>>
  \/ focus = "dac" /\ DA!Next /\ UNCHANGED <<focus, vars, factoryVars, hibVars, geometryVars, listVars>>
  \/ focus = "geometry" /\ GE!Next /\ UNCHANGED <<focus, vars, factoryVars, hibVars, dacVars, listVars>>
  \/ focus = "list" /\ WorkThrough /\ UNCHANGED <<focus, vars, factoryVars, hibVars, dacVars, geometryVars>>

FlowsSpec == FlowsInit /\ [][FlowsNext]_flowVars

------------------------------------------------------------------------------
\* The status STARTED and the forced launch of the resident application have a call
\* that works on them, on every way out of launchFactoryApp and launchResidentApp;
\* the factory and the resident application do not end up side by side; and the
\* status, the easter eggs and the mode kept for the next boot agree.  FactoryMode's
\* variables have their types.
FactoryModesHold ==
  focus = "factory" =>
    /\ FM!TypeOK /\ FM!StartedHasCall /\ FM!ForceHasCall
    /\ FM!FactoryExcludesResident /\ FM!FactoryModeAgrees

\* Skipping suspended and hibernated applications in setFocus forgets nobody that
\* runs.  Hibernation's variables have their types.
OnlyFocusedTold == focus = "hibernation" => HB!TypeOK /\ HB!OnlyFocusedTold

\* What launchApplication, suspendApplication, resumeApplication and kill answer is
\* so.  The variables of DacApps have their types.
AnswerIsTrue == focus = "dac" => DA!TypeOK /\ DA!AnswerIsTrue

\* A method that changes one value of a client's geometry keeps the others, although
\* it lets go of gRdkShellMutex between reading and writing (the exceptions are named
\* with Geometry's property).  Geometry's variables have their types.
GeometryAsGiven == focus = "geometry" => GE!TypeOK /\ GE!GeometryAsGiven

\* The results of addKeyIntercepts, addKeyListeners, generateKey, enableInputEvents,
\* setAVBlocked, addAnimation and the calls at startup mean what ListMethods says for
\* every list of a small length, and getLastWakeupKey finds the first key within its
\* tries.
ListsAreSound ==
  checked =>
    /\ LM!InterceptsSound(list) /\ LM!ListenersSound(list) /\ LM!OrderedSound(list)
    /\ LM!InputSound(list) /\ LM!LenientSound(list)
    /\ list \in Seq(Keys \cup {"gone"}) => LM!WakeupSound(list)
================================================================================
