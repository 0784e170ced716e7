----------------------------- MODULE AppLifecycle -----------------------------
(***************************************************************************)
(* RDKShell's launch, suspend and destroy of one application, a Thunder    *)
(* plugin, against each other and against its deactivation from outside.   *)
(*                                                                         *)
(* The calls run on threads of their own and keep three marks under        *)
(* gLaunchDestroyMutex: the application is being launched, is being        *)
(* destroyed, or is being deactivated by somebody else.  The marks are     *)
(* entries of maps, not counters.  Between two steps of a call the         *)
(* framework, the notifications it sends and the other calls run.          *)
(*                                                                         *)
(* Thunder is outside the repository; it is modelled by how RDKShell uses  *)
(* it: activate, deactivate and a request on a plugin interface succeed or *)
(* fail, and a deactivation is notified twice, as Deactivated while the    *)
(* plugin still exists and as Deinitialized when it is gone.  The display  *)
(* work of launch and of the notifications is in ShellRequests.            *)
(***************************************************************************)
EXTENDS Naturals, FiniteSets

CONSTANTS
  Launchers, Suspenders, Destroyers, \* the threads that make the calls
  Configured,    \* TRUE if the plugin comes with a configuration line
  MaxCalls,      \* bound on the calls of each thread
  MaxDeactivations \* bound on the deactivations from outside

Threads == Launchers \cup Suspenders \cup Destroyers

ASSUME ThreadsAssumption ==
  /\ Launchers \cap Suspenders = {}
  /\ Launchers \cap Destroyers = {}
  /\ Suspenders \cap Destroyers = {}
  /\ "free" \notin Threads
ASSUME ConfiguredAssumption == Configured \in BOOLEAN
ASSUME BoundsAssumption == MaxCalls \in Nat /\ MaxDeactivations \in Nat

VARIABLES
  state,        \* the plugin's state in Thunder; "absent" if it does not exist
  run,          \* the plugin's own state: "suspended" or "resumed"
  hasConfig,    \* it has a configuration line, which names its display
  deactivation, \* what is left of a running deactivation
  deactivations, \* deactivations from outside so far
  changed,      \* the plugin has a state change to notify
  gLaunchApplications, gDestroyApplications, gExternalDestroyApplications,
  gDestroyMutex, \* "free", or the thread that holds it
  gStateNotifications, \* "none", "live" (registered with this plugin), "orphan"
  mLaunchEnabled, \* that handler announces the next state change as a launch
  call,         \* each thread's call
  calls,        \* how many calls each thread has made
  launched      \* how often onLaunched was sent

marks  == <<gLaunchApplications, gDestroyApplications, gExternalDestroyApplications>>
thunder == <<state, run, hasConfig, deactivation, deactivations, changed>>
handler == <<gStateNotifications, mLaunchEnabled>>
vars == <<thunder, marks, gDestroyMutex, handler, call, calls, launched>>

\* A call: where it stands, launch's launchType, suspend, deferLaunch and
\* setSuspendResumeStateOnLaunch.
Idle == [pc |-> "idle", type |-> "UNKNOWN", suspend |-> FALSE, defer |-> FALSE, ask |-> TRUE]

Calls == [pc : {"idle", "find", "config", "state", "activate", "register", "request", "launched",
                "launchEnd", "lock", "suspend", "deactivate", "wait", "destroyEnd"},
          type : {"UNKNOWN", "CREATE", "ACTIVATE", "SUSPEND", "RESUME"},
          suspend : BOOLEAN, defer : BOOLEAN, ask : BOOLEAN]

TypeOK ==
  /\ state \in {"absent", "deactivated", "activated", "deactivation"}
  /\ run \in {"suspended", "resumed"} /\ hasConfig \in BOOLEAN
  /\ deactivation \in {"none", "flag", "handler", "deinit"}
  /\ state = "deactivation" <=> deactivation # "none"
  /\ deactivations \in 0 .. MaxDeactivations /\ changed \in BOOLEAN
  /\ gLaunchApplications \in BOOLEAN /\ gDestroyApplications \in BOOLEAN
  /\ gExternalDestroyApplications \in BOOLEAN
  /\ gDestroyMutex \in Threads \cup {"free"}
  /\ \A t \in Threads : gDestroyMutex = t <=> call[t].pc \in {"suspend", "wait"}
  /\ gStateNotifications \in {"none", "live", "orphan"} /\ mLaunchEnabled \in BOOLEAN
  /\ call \in [Threads -> Calls]
  /\ calls \in [Threads -> 0 .. MaxCalls]
  /\ launched \in Nat

Init ==
  /\ state \in {"absent", "deactivated"} /\ run = "resumed" /\ hasConfig = Configured
  /\ deactivation = "none" /\ deactivations = 0 /\ changed = FALSE
  /\ gLaunchApplications = FALSE /\ gDestroyApplications = FALSE
  /\ gExternalDestroyApplications = FALSE
  /\ gDestroyMutex = "free"
  /\ gStateNotifications = "none" /\ mLaunchEnabled = FALSE
  /\ call = [t \in Threads |-> Idle] /\ calls = [t \in Threads |-> 0]
  /\ launched = 0

Goto(t, from, to) ==
  /\ call[t].pc = from
  /\ call' = [call EXCEPT ![t] = IF to = "idle" THEN Idle ELSE [@ EXCEPT !.pc = to]]

Begin(t, c) ==
  /\ call[t] = Idle /\ calls[t] < MaxCalls
  /\ call' = [call EXCEPT ![t] = c]
  /\ calls' = [calls EXCEPT ![t] = @ + 1]

------------------------------------------------------------------------------
(***************************************************************************)
(* launchWrapper.                                                          *)
(***************************************************************************)

\* The launch is refused while the application is being destroyed.
LaunchBegin(t) ==
  /\ \E suspend \in BOOLEAN :
       Begin(t, IF gDestroyApplications THEN Idle ELSE [Idle EXCEPT !.pc = "find", !.suspend = suspend])
  /\ gLaunchApplications' = (gLaunchApplications \/ ~gDestroyApplications)
  /\ UNCHANGED <<thunder, gDestroyApplications, gExternalDestroyApplications, gDestroyMutex,
                 handler, launched>>

\* gActivePluginsData lists the plugin from its Initialize notification to the
\* Deinitialized one, if its configuration names a display.
Listed == hasConfig /\ state \in {"activated", "deactivation"}

\* Clone the plugin from its type, which fails if it exists already.  A clone
\* that fails twice is noticed only when the plugin is activated.  One type
\* (Netflix) is not asked to resume when it was just cloned.
LaunchClone(t) ==
  /\ ~Listed
  /\ call[t].pc = "find"
  /\ \E ask \in {TRUE, call[t].suspend} :
       call' = [call EXCEPT ![t].pc = "config", ![t].type = "CREATE", ![t].ask = ask]
  /\ state' \in IF state = "absent" THEN {"absent", "deactivated"} ELSE {state}

\* Mutant of LaunchFind: the mark stays when the type is not found.
LaunchFindMarked(t) ==
  /\ \/ /\ state # "absent" /\ Goto(t, "find", "config") /\ UNCHANGED state
     \/ /\ state = "absent" /\ Goto(t, "find", "idle") /\ UNCHANGED state
     \/ LaunchClone(t)
  /\ UNCHANGED <<run, hasConfig, deactivation, deactivations, changed, marks, gDestroyMutex,
                 handler, calls, launched>>

\* A plugin of that callsign exists, or neither it nor its type does, or only
\* the type is known: gActivePluginsData is searched for both before Thunder
\* is asked.
LaunchFind(t) ==
  /\ \/ /\ state # "absent"
        /\ Goto(t, "find", "config")
        /\ UNCHANGED <<state, gLaunchApplications>>
     \/ /\ state = "absent"
        /\ Goto(t, "find", "idle")
        /\ gLaunchApplications' = FALSE
        /\ UNCHANGED state
     \/ /\ LaunchClone(t)
        /\ UNCHANGED gLaunchApplications
  /\ UNCHANGED <<run, hasConfig, deactivation, deactivations, changed, gDestroyApplications,
                 gExternalDestroyApplications, gDestroyMutex, handler, calls, launched>>

\* setConfig takes effect on a deactivated plugin only.
LaunchConfig(t) ==
  /\ Goto(t, "config", IF call[t].type = "CREATE" THEN "activate" ELSE "state")
  /\ hasConfig' = (hasConfig \/ state = "deactivated")
  /\ UNCHANGED <<state, run, deactivation, deactivations, changed, marks, gDestroyMutex,
                 handler, calls, launched>>

\* Is there anything to activate?  getServiceState fails only for a callsign
\* that has no service, and this one was found or cloned.
LaunchState(t) ==
  /\ call[t].pc = "state"
  /\ call' = [call EXCEPT ![t] = IF state = "activated"
                                THEN [@ EXCEPT !.pc = "register"]
                                ELSE [@ EXCEPT !.pc = "activate", !.type = "ACTIVATE"]]
  /\ UNCHANGED <<thunder, marks, gDestroyMutex, handler, calls, launched>>

\* activate, tried twice.  A new instance of the plugin knows no handler.
LaunchActivate(t) ==
  /\ \/ /\ Goto(t, "activate", "register")
        /\ state \in {"deactivated", "activated"}
        /\ state' = "activated"
        /\ run' \in IF state = "activated" THEN {run} ELSE {"suspended", "resumed"}
     \/ /\ Goto(t, "activate", "launchEnd")
        /\ state # "activated"
        /\ UNCHANGED <<state, run>>
  /\ UNCHANGED <<hasConfig, deactivation, deactivations, changed, marks, gDestroyMutex, handler,
                 calls, launched>>

\* Under gPluginDataMutex: a handler that is there announces this launch at
\* the next state change; otherwise one is registered, if the plugin offers
\* IStateControl, which it does until it is deinitialised.
LaunchRegister(t) ==
  /\ call[t].pc = "register"
  /\ \/ /\ gStateNotifications # "none"
        /\ mLaunchEnabled' = TRUE
        /\ call' = [call EXCEPT ![t].pc = "request", ![t].defer = TRUE]
        /\ UNCHANGED gStateNotifications
     \/ /\ gStateNotifications = "none"
        /\ gStateNotifications' \in IF state \in {"activated", "deactivation"}
                                    THEN {"none", "live"} ELSE {"none"}
        /\ mLaunchEnabled' = FALSE
        /\ call' = [call EXCEPT ![t].pc = "request"]
  /\ UNCHANGED <<thunder, marks, gDestroyMutex, calls, launched>>

\* The plugin obeys a request to suspend or to resume, if it is active, or it
\* does not, and tells its handlers if that is a change.
Request(target, obeys) ==
  /\ obeys => state = "activated"
  /\ run' = IF obeys THEN target ELSE run
  /\ changed' = (changed \/ (obeys /\ run # target))

\* Ask the plugin to suspend or to resume, then set its URL.  The last status
\* decides whether the launch succeeded, and it may hide an earlier failure.
LaunchRequest(t) ==
  /\ call[t].pc = "request"
  /\ LET target == IF call[t].suspend THEN "suspended" ELSE "resumed"
         type   == IF call[t].type # "UNKNOWN" \/ ~call[t].ask THEN call[t].type
                   ELSE IF call[t].suspend THEN "SUSPEND" ELSE "RESUME"
     IN  /\ \E obeys \in IF call[t].ask THEN BOOLEAN ELSE {FALSE} : Request(target, obeys)
         /\ \E next \in {"launched", "launchEnd"} :
              call' = [call EXCEPT ![t].pc = next, ![t].type = type]
  /\ UNCHANGED <<state, hasConfig, deactivation, deactivations, marks, gDestroyMutex, handler,
                 calls, launched>>

\* Mutant of LaunchAnnounce: a deferred launch is announced as well.
LaunchAnnounceTwice(t) ==
  /\ Goto(t, "launched", "launchEnd")
  /\ launched' = launched + 1
  /\ UNCHANGED <<thunder, marks, gDestroyMutex, handler, calls>>

\* onLaunched, unless the handler is to send it.
LaunchAnnounce(t) ==
  /\ Goto(t, "launched", "launchEnd")
  /\ launched' = IF call[t].ask /\ call[t].defer /\ call[t].type \in {"SUSPEND", "RESUME"}
                 THEN launched ELSE launched + 1
  /\ UNCHANGED <<thunder, marks, gDestroyMutex, handler, calls>>

\* Every launch that was not refused ends here, or in LaunchFind.
LaunchEnd(t) ==
  /\ Goto(t, "launchEnd", "idle")
  /\ gLaunchApplications' = FALSE
  /\ UNCHANGED <<thunder, gDestroyApplications, gExternalDestroyApplications, gDestroyMutex,
                 handler, calls, launched>>

Launch(t) ==
  \/ LaunchBegin(t) \/ LaunchFind(t) \/ LaunchConfig(t) \/ LaunchState(t) \/ LaunchActivate(t)
  \/ LaunchRegister(t) \/ LaunchRequest(t) \/ LaunchAnnounce(t) \/ LaunchEnd(t)

------------------------------------------------------------------------------
(***************************************************************************)
(* suspendWrapper and destroyWrapper.                                      *)
(***************************************************************************)

\* The suspend is ignored while the application is being destroyed.
SuspendBegin(t) ==
  /\ Begin(t, IF gDestroyApplications \/ gExternalDestroyApplications
              THEN Idle ELSE [Idle EXCEPT !.pc = "lock"])
  /\ UNCHANGED <<thunder, marks, gDestroyMutex, handler, launched>>

\* lock gDestroyMutex.
SuspendLock(t) ==
  /\ gDestroyMutex = "free"
  /\ Goto(t, "lock", "suspend")
  /\ gDestroyMutex' = t
  /\ UNCHANGED <<thunder, marks, handler, calls, launched>>

\* The request to IStateControl, under gDestroyMutex (or, to a plugin without
\* it, by JSON-RPC).
Suspend(t) ==
  /\ Goto(t, "suspend", "idle")
  /\ gDestroyMutex' = "free"
  /\ \E obeys \in BOOLEAN : Request("suspended", obeys)
  /\ UNCHANGED <<state, hasConfig, deactivation, deactivations, marks, handler, calls, launched>>

\* Mutant of DestroyBegin: a running launch is not looked for.
DestroyBeginAlways(t) ==
  /\ Begin(t, [Idle EXCEPT !.pc = "deactivate"])
  /\ gDestroyApplications' = TRUE
  /\ UNCHANGED <<thunder, gLaunchApplications, gExternalDestroyApplications, gDestroyMutex,
                 handler, launched>>

\* The destroy is refused while the application is being launched.
DestroyBegin(t) ==
  /\ Begin(t, IF gLaunchApplications THEN Idle ELSE [Idle EXCEPT !.pc = "deactivate"])
  /\ gDestroyApplications' = (gDestroyApplications \/ ~gLaunchApplications)
  /\ UNCHANGED <<thunder, gLaunchApplications, gExternalDestroyApplications, gDestroyMutex,
                 handler, launched>>

\* deactivate, under gDestroyMutex, waits for the deactivation to complete; it
\* does nothing unless the plugin is active.
DestroyDeactivate(t) ==
  /\ gDestroyMutex = "free"
  /\ \/ /\ state = "activated"
        /\ Goto(t, "deactivate", "wait")
        /\ gDestroyMutex' = t
        /\ state' = "deactivation" /\ deactivation' = "flag"
     \/ /\ state # "activated"
        /\ Goto(t, "deactivate", "destroyEnd")
        /\ UNCHANGED <<gDestroyMutex, state, deactivation>>
  /\ UNCHANGED <<run, hasConfig, deactivations, changed, marks, handler, calls, launched>>

\* The deactivation is complete.
DestroyWait(t) ==
  /\ deactivation = "none"
  /\ Goto(t, "wait", "destroyEnd")
  /\ gDestroyMutex' = "free"
  /\ UNCHANGED <<thunder, marks, handler, calls, launched>>

\* onDestroyed, and the mark is erased.
DestroyEnd(t) ==
  /\ Goto(t, "destroyEnd", "idle")
  /\ gDestroyApplications' = FALSE
  /\ UNCHANGED <<thunder, gLaunchApplications, gExternalDestroyApplications, gDestroyMutex,
                 handler, calls, launched>>

Destroy(t) == DestroyBegin(t) \/ DestroyDeactivate(t) \/ DestroyWait(t) \/ DestroyEnd(t)

------------------------------------------------------------------------------
(***************************************************************************)
(* The framework, and the notifications it sends to MonitorClients and to  *)
(* StateControlNotification.                                               *)
(***************************************************************************)

\* Somebody else deactivates the plugin, or it fails and is deactivated.
DeactivateOutside ==
  /\ state = "activated" /\ deactivations < MaxDeactivations
  /\ state' = "deactivation" /\ deactivation' = "flag"
  /\ deactivations' = deactivations + 1
  /\ UNCHANGED <<run, hasConfig, changed, marks, gDestroyMutex, handler, call, calls, launched>>

\* Somebody else activates the plugin.
ActivateOutside ==
  /\ state = "deactivated"
  /\ state' = "activated"
  /\ run' \in {"suspended", "resumed"}
  /\ UNCHANGED <<hasConfig, deactivation, deactivations, changed, marks, gDestroyMutex, handler,
                 call, calls, launched>>

\* Mutant of handleDeactivatedFlag: the destroy's mark is not looked for.
handleDeactivatedFlagAlways ==
  /\ deactivation = "flag"
  /\ deactivation' = "handler"
  /\ gExternalDestroyApplications' = TRUE
  /\ UNCHANGED <<state, run, hasConfig, deactivations, changed, gLaunchApplications,
                 gDestroyApplications, gDestroyMutex, handler, call, calls, launched>>

\* handleDeactivated, first section: a deactivation that no destroy asked for
\* comes from outside.
handleDeactivatedFlag ==
  /\ deactivation = "flag"
  /\ deactivation' = "handler"
  /\ gExternalDestroyApplications' = (gExternalDestroyApplications \/ ~gDestroyApplications)
  /\ UNCHANGED <<state, run, hasConfig, deactivations, changed, gLaunchApplications,
                 gDestroyApplications, gDestroyMutex, handler, call, calls, launched>>

\* handleDeactivated, second section: the handler is unregistered and dropped.
handleDeactivatedHandler ==
  /\ deactivation = "handler"
  /\ deactivation' = "deinit"
  /\ gStateNotifications' = "none" /\ mLaunchEnabled' = FALSE
  /\ UNCHANGED <<state, run, hasConfig, deactivations, changed, marks, gDestroyMutex,
                 call, calls, launched>>

\* handleDeinitialized: nothing is done for a plugin without a configuration
\* line.  The plugin is gone, and a handler registered meanwhile with it.
handleDeinitialized ==
  /\ deactivation = "deinit"
  /\ deactivation' = "none" /\ state' = "deactivated" /\ changed' = FALSE
  /\ gExternalDestroyApplications' = (gExternalDestroyApplications /\ ~hasConfig)
  /\ gStateNotifications' = IF gStateNotifications = "live" THEN "orphan" ELSE gStateNotifications
  /\ UNCHANGED <<run, hasConfig, deactivations, gLaunchApplications, gDestroyApplications,
                 gDestroyMutex, mLaunchEnabled, call, calls, launched>>

\* StateControlNotification::StateChange, if the handler is registered with
\* the plugin.
StateChange ==
  /\ changed
  /\ changed' = FALSE
  /\ \/ /\ gStateNotifications = "live" /\ mLaunchEnabled
        /\ launched' = launched + 1 /\ mLaunchEnabled' = FALSE
     \/ /\ ~(gStateNotifications = "live" /\ mLaunchEnabled)
        /\ UNCHANGED <<launched, mLaunchEnabled>>
  /\ UNCHANGED <<state, run, hasConfig, deactivation, deactivations, marks, gDestroyMutex,
                 gStateNotifications, call, calls>>

Notification == handleDeactivatedFlag \/ handleDeactivatedHandler \/ handleDeinitialized

Next ==
  \/ \E t \in Launchers : Launch(t)
  \/ \E t \in Suspenders : SuspendBegin(t) \/ SuspendLock(t) \/ Suspend(t)
  \/ \E t \in Destroyers : Destroy(t)
  \/ ActivateOutside \/ DeactivateOutside \/ Notification \/ StateChange

Spec == Init /\ [][Next]_vars

------------------------------------------------------------------------------
(***************************************************************************)
(* Properties.                                                             *)
(***************************************************************************)

Launching(t) == t \in Launchers /\ call[t].pc # "idle"
Destroying(t) == t \in Destroyers /\ call[t].pc # "idle"

\* A mark that is set has a call behind it, whichever way the launches and
\* the destroys end: a mark left behind would refuse every later call.
MarksHaveOwners ==
  /\ gLaunchApplications => \E t \in Launchers : Launching(t)
  /\ gDestroyApplications => \E t \in Destroyers : Destroying(t)

\* launch and destroy of one application exclude each other, as the messages
\* say with which they refuse: "failed to launch application due to active
\* destroy request" and "failed to destroy application as same application
\* being launched".
LaunchExcludesDestroy ==
  ~ \E t \in Launchers, u \in Destroyers : Launching(t) /\ Destroying(u)

\* The handler in gStateNotifications is registered with the plugin that is
\* running, until somebody else deactivates it: a launch that
\* finds an orphan would wait in vain for its state change and never be
\* announced.  It rests on launch and destroy excluding each other.
HandlerIsLive == deactivations = 0 => gStateNotifications # "orphan"

\* The mark of a deactivation from outside is gone when the application runs
\* again: while it is set, suspend and setVisibility are ignored, with the
\* words "as it is being destroyed".
ExternalMarkIsTrue == gExternalDestroyApplications => state # "activated"

\* A destroy is not taken for a deactivation from outside.
DestroyIsNotExternal ==
  deactivations = 0 => ~gExternalDestroyApplications

\* What RDKShell keeps of an application while the framework's notifications come:
\* the handler in gStateNotifications is live, the mark of a deactivation from
\* outside is gone when the application runs again, and a destroy is not taken for
\* one.  The variables have their types.
NotificationsSound == TypeOK /\ HandlerIsLive /\ ExternalMarkIsTrue /\ DestroyIsNotExternal

\* Each launch of a launcher that is alone is announced at most once, by the launch itself
\* or by the handler that it leaves waiting for the state change.
LaunchesAnnouncedOnce ==
  \A t \in Launchers : Launchers = {t} => launched <= calls[t]

==============================================================================
