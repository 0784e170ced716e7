------------------------------ MODULE Hibernation ------------------------------
(***************************************************************************)
(* Focus and hibernation.  setFocus tells the application that loses the   *)
(* focus, and that call would wake it if it were hibernated: applications  *)
(* known to be suspended or hibernated are not told, and a count keeps new *)
(* hibernations waiting while one is told.  The applications, the          *)
(* framework that hibernates them and the compositor's focus are external. *)
(***************************************************************************)
EXTENDS Naturals, FiniteSets

CONSTANTS
  Focusers,     \* the threads that call setFocus
  Hibernators,  \* the threads that hibernate starts
  Apps,
  Natives,      \* the applications that may be hibernated only while suspended
  NoApp,        \* no application has the focus
  MaxHibCalls   \* calls of setFocus, setTopmost and hibernate

HibThreads == Focusers \cup Hibernators

VARIABLES
  call,      \* each thread's call: its step, its application, the one that had the
             \* focus, and whether its copy of gActivePluginsData lists the application
  focused,   \* the compositor's focus
  state,     \* each application: "off", "resumed" or "suspended"
  hibernated,
  told,      \* the applications that were last told that they have the focus
  gSuspendedOrHibernatedApplications,  \* "none", "yes" or "no" for each
  gHibernateBlocked,
  calls,
  overlap,   \* two calls of setFocus, or one and a deactivation, overlapped
  restored,  \* the applications marked as hibernated while they were not suspended
  misled     \* the applications told of a focus that the compositor refused them, or
             \* deprived of theirs by setTopmost

apps == <<state, hibernated, told>>
vars == <<call, focused, apps, gSuspendedOrHibernatedApplications, gHibernateBlocked,
          calls, overlap, restored, misled>>

FocusSteps == {"unfocus", "focusoff", "unblock", "tell"}
Idle == [pc |-> "idle", app |-> NoApp, prev |-> NoApp, listed |-> FALSE]
Active == {a \in Apps : state[a] # "off"}
Focusing == {t \in HibThreads : call[t].pc \in FocusSteps}

\* Every call is of its type; the count is the number of applications that are
\* being told, whatever the order in which callers enter and leave.
TypeOK ==
  /\ \A t \in HibThreads :
       /\ call[t].pc \in FocusSteps \cup {"idle", "wait", "invoke", "mark"}
       /\ call[t].app \in Apps \cup {NoApp} /\ call[t].prev \in Apps \cup {NoApp}
       /\ call[t].listed \in BOOLEAN
  /\ focused \in Apps \cup {NoApp} /\ state \in [Apps -> {"off", "resumed", "suspended"}]
  /\ hibernated \subseteq Active /\ told \subseteq Active /\ restored \subseteq Apps
  /\ misled \subseteq Apps
  /\ gSuspendedOrHibernatedApplications \in [Apps -> {"none", "yes", "no"}]
  /\ gHibernateBlocked = Cardinality({t \in HibThreads : call[t].pc \in {"focusoff", "unblock"}})
  /\ calls \in 0 .. MaxHibCalls /\ overlap \in BOOLEAN

Init ==
  /\ call = [t \in HibThreads |-> Idle] /\ focused \in Apps \cup {NoApp}
  /\ state = [a \in Apps |-> "resumed"] /\ hibernated = {} /\ told = {focused} \cap Apps
  /\ gSuspendedOrHibernatedApplications = [a \in Apps |-> "none"]
  /\ gHibernateBlocked = 0 /\ calls = 0 /\ overlap = FALSE /\ restored = {} /\ misled = {}

Goto(t, pc) == call' = [call EXCEPT ![t].pc = pc]
Begin(t, pc, a, prev) ==
  /\ call[t].pc = "idle" /\ calls < MaxHibCalls /\ calls' = calls + 1
  /\ call' = [call EXCEPT ![t] = IF pc = "idle" THEN Idle
                                 ELSE [pc |-> pc, app |-> a, prev |-> prev, listed |-> FALSE]]

------------------------------------------------------------------------------
\* Under gRdkShellMutex: read who had the focus and set it.  The compositor may refuse,
\* and the applications are told all the same.  (An application that is being
\* destroyed is refused before that; its mark is in AppLifecycle.)
SetFocus(t, a) ==
  /\ Begin(t, IF focused = a THEN "idle" ELSE "unfocus", a, focused)
  /\ \/ focused' = a /\ misled' = misled \ {a}
     \/ focused # a /\ UNCHANGED focused /\ misled' = misled \cup {a}
  /\ overlap' = (overlap \/ (Focusing # {}))
  /\ UNCHANGED <<apps, gSuspendedOrHibernatedApplications, gHibernateBlocked, restored>>

\* setTopmost moves the focus with the application, if it is asked to, and tells nobody.
SetTopmost(a) ==
  /\ calls < MaxHibCalls /\ calls' = calls + 1 /\ focused # a /\ focused' = a
  /\ misled' = (misled \cup ({focused} \cap Apps)) \ {a}
  /\ overlap' = (overlap \/ (Focusing # {}))
  /\ UNCHANGED <<call, apps, gSuspendedOrHibernatedApplications, gHibernateBlocked, restored>>

setHibernateBlocked(val) ==
  gHibernateBlocked' = IF val THEN gHibernateBlocked + 1 ELSE gHibernateBlocked - 1

\* Mutant of SkipFocus: an application that never changed its state is skipped too.
SkipFocusUnknown(a) == gSuspendedOrHibernatedApplications[a] # "no"

SkipFocus(a) == gSuspendedOrHibernatedApplications[a] = "yes"

\* Copy the plugins' data, look at the mark and raise the count.
Unfocus(t) ==
  /\ call[t].pc = "unfocus"
  /\ LET tells == call[t].prev \in Active /\ ~SkipFocus(call[t].prev) IN
       /\ call' = [call EXCEPT ![t].listed = call[t].app \in Active, ![t].pc = IF tells THEN "focusoff" ELSE "tell"]
       /\ IF tells THEN setHibernateBlocked(TRUE) ELSE UNCHANGED gHibernateBlocked
  /\ UNCHANGED <<focused, apps, gSuspendedOrHibernatedApplications, calls, overlap, restored, misled>>

\* Focused(false), if the plugin is still there; the call wakes it.
UnfocusCall(t) ==
  /\ call[t].pc = "focusoff" /\ Goto(t, "unblock")
  /\ told' = told \ {call[t].prev} /\ hibernated' = hibernated \ {call[t].prev}
  /\ UNCHANGED <<focused, state, gSuspendedOrHibernatedApplications, gHibernateBlocked,
                 calls, overlap, restored, misled>>

Unblock(t) ==
  /\ call[t].pc = "unblock" /\ setHibernateBlocked(FALSE)
  /\ call' = [call EXCEPT ![t].pc = "tell", ![t].prev = NoApp]
  /\ UNCHANGED <<focused, apps, gSuspendedOrHibernatedApplications, calls, overlap, restored, misled>>

\* Focused(true), if the client was in the copy and is still there.  A suspended
\* application makes nothing of it, as the comment in setFocus has it.
Tell(t) ==
  /\ call[t].pc = "tell" /\ call' = [call EXCEPT ![t] = Idle]
  /\ LET reached == {a \in Active : a = call[t].app /\ call[t].listed} IN
       /\ told' = told \cup {a \in reached : state[a] = "resumed"}
       /\ hibernated' = hibernated \ reached
  /\ UNCHANGED <<focused, state, gSuspendedOrHibernatedApplications, gHibernateBlocked,
                 calls, overlap, restored, misled>>

------------------------------------------------------------------------------
\* A native application must be suspended, and no application on its way out (see
\* AppLifecycle).  A thread does the rest.
Hibernate(t, a) ==
  /\ a \in Natives => state[a] = "suspended"
  /\ Begin(t, "wait", a, NoApp)
  /\ UNCHANGED <<focused, apps, gSuspendedOrHibernatedApplications, gHibernateBlocked,
                 overlap, restored, misled>>

\* Not blocked, or still blocked when the wait times out.
waitForHibernateUnblocked(t) ==
  IF gHibernateBlocked = 0 THEN Goto(t, "invoke") ELSE call' = [call EXCEPT ![t] = Idle]

HibernateWait(t) ==
  /\ call[t].pc = "wait" /\ waitForHibernateUnblocked(t)
  /\ UNCHANGED <<focused, apps, gSuspendedOrHibernatedApplications, gHibernateBlocked,
                 calls, overlap, restored, misled>>

\* The framework hibernates an active plugin, or fails and says so.
HibernateInvoke(t) ==
  /\ call[t].pc = "invoke"
  /\ \/ /\ call[t].app \in Active /\ Goto(t, "mark")
        /\ hibernated' = hibernated \cup {call[t].app}
     \/ call' = [call EXCEPT ![t] = Idle] /\ UNCHANGED hibernated
  /\ UNCHANGED <<focused, state, told, gSuspendedOrHibernatedApplications, gHibernateBlocked,
                 calls, overlap, restored, misled>>

\* The mark is set whatever happened to the application since.
HibernateMark(t) ==
  /\ call[t].pc = "mark" /\ call' = [call EXCEPT ![t] = Idle]
  /\ gSuspendedOrHibernatedApplications' =
       [gSuspendedOrHibernatedApplications EXCEPT ![call[t].app] = "yes"]
  /\ restored' = IF state[call[t].app] = "suspended" THEN restored ELSE restored \cup {call[t].app}
  /\ UNCHANGED <<focused, apps, gHibernateBlocked, calls, overlap, misled>>

\* The controller's activate: wakes a hibernated plugin, activates one that is off.
Restore(a) ==
  /\ a \in hibernated \/ state[a] = "off"
  /\ hibernated' = hibernated \ {a}
  /\ state' = [state EXCEPT ![a] = IF @ = "off" THEN "resumed" ELSE @]
  /\ UNCHANGED <<call, focused, told, gSuspendedOrHibernatedApplications, gHibernateBlocked,
                 calls, overlap, restored, misled>>

------------------------------------------------------------------------------
StateChange(a, isSuspended) ==
  gSuspendedOrHibernatedApplications' =
    [gSuspendedOrHibernatedApplications EXCEPT ![a] = IF isSuspended THEN "yes" ELSE "no"]

\* The application suspends, giving up the focus itself, or resumes.
AppChanges(a) ==
  /\ state[a] # "off" /\ a \notin hibernated
  /\ LET isSuspended == state[a] = "resumed" IN
       /\ state' = [state EXCEPT ![a] = IF isSuspended THEN "suspended" ELSE "resumed"]
       /\ told' = IF isSuspended THEN told \ {a} ELSE told
       /\ StateChange(a, isSuspended)
  /\ UNCHANGED <<call, focused, hibernated, gHibernateBlocked, calls, overlap, restored, misled>>

Erase(a) ==
  gSuspendedOrHibernatedApplications' = [gSuspendedOrHibernatedApplications EXCEPT ![a] = "none"]

\* A launch forgets the mark, if there is one, before it resumes the application.
LaunchErase(a) ==
  /\ gSuspendedOrHibernatedApplications[a] # "none" /\ Erase(a)
  /\ UNCHANGED <<call, focused, apps, gHibernateBlocked, calls, overlap, restored, misled>>

HandleDeactivated(a) ==
  /\ state[a] # "off" /\ state' = [state EXCEPT ![a] = "off"]
  /\ hibernated' = hibernated \ {a} /\ told' = told \ {a} /\ Erase(a)
  /\ focused' = IF focused = a THEN NoApp ELSE focused
  /\ overlap' = (overlap \/ (Focusing # {}))
  /\ UNCHANGED <<call, gHibernateBlocked, calls, restored, misled>>

Next ==
  \/ \E t \in Focusers :
       (\E a \in Apps : SetFocus(t, a)) \/ Unfocus(t) \/ UnfocusCall(t) \/ Unblock(t) \/ Tell(t)
  \/ \E t \in Hibernators :
       (\E a \in Apps : Hibernate(t, a)) \/ HibernateWait(t) \/ HibernateInvoke(t) \/ HibernateMark(t)
  \/ \E a \in Apps : SetTopmost(a) \/ Restore(a) \/ AppChanges(a) \/ LaunchErase(a) \/ HandleDeactivated(a)

Spec == Init /\ [][Next]_vars

------------------------------------------------------------------------------

\* When no call of setFocus is under way, an application that runs does not
\* believe to have a focus that is another's: skipping the ones that are marked
\* forgets nobody.  Excepted are calls that overlapped, which tell in any order; an
\* application hibernated without having been suspended first: its mark outlives
\* its restoration and it is skipped; and one that setFocus told although the
\* compositor refused it the focus, or that setTopmost did not tell.
OnlyFocusedTold ==
  Focusing = {} /\ ~overlap => \A a \in told \ (restored \cup misled) : focused = a

\* What the comment in setFocus promises: no hibernation begins between the look
\* at the mark and the end of the call that would wake the application.
BlockedWhileUnfocusing ==
  [][\A a \in hibernated' \ hibernated :
       \A t \in HibThreads : ~(call[t].pc = "focusoff" /\ call[t].prev = a)]_vars
================================================================================
