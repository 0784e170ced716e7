------------------------------ MODULE Analytics ------------------------------
(***************************************************************************)
(* AnalyticsImplementation: events are accepted by SendEvent on the        *)
(* callers' threads, queued, and handled by one thread, ActionLoop.  An    *)
(* event without an epoch timestamp waits in a second queue until the      *)
(* system time is valid, and gets a timestamp computed from its uptime.    *)
(*                                                                         *)
(* Time is a number of ticks since boot.  The system clock is right once   *)
(* it is synchronised, and shows the time since boot before that, as a     *)
(* device without a battery-backed clock does.                             *)
(***************************************************************************)
EXTENDS Naturals, Sequences

CONSTANTS
  Events,    \* the events the callers may send
  Given,     \* Given[e]: which time stamps the caller gives, if any
  Boot,      \* the true epoch time of the boot
  MaxUptime  \* bound on the uptime

ASSUME GivenAssumption == Given \in [Events -> {"epoch", "uptime", "none"}]
ASSUME TimeAssumption == Boot \in Nat \ {0} /\ MaxUptime \in Nat

VARIABLES
  plugin,        \* Analytics: "created", "configured", "serving", "joining", "destroyed"
  uptime,        \* ticks since boot
  synchronised,  \* the system clock shows the true time
  sysTime,       \* SystemTime: the time is available and its zone FINAL
  assumed,       \* it was so once although the clock was not set
  backend,       \* a backend was loaded: mBackends is not empty
  happened,      \* accepted event |-> the uptime at which it happened
  mActionQueue,  \* actions: events, or ACTION_TYPE_SHUTDOWN
  mEventQueue,   \* events that wait for the system time
  mSysTimeValid,
  loop,          \* "wait", "late", "handle", "other" or "populate", "exited"
  action,        \* the action taken from the queue, as a sequence of at most one
  handled,       \* events that left ActionLoop
  received       \* event |-> the epoch timestamp with which the backend got it

timeVars  == <<uptime, synchronised, sysTime, assumed>>
queueVars == <<mActionQueue, mEventQueue, loop, action>>
vars == <<plugin, timeVars, backend, happened, queueVars, mSysTimeValid, handled, received>>

SHUTDOWN == "ACTION_TYPE_SHUTDOWN"

ASSUME EventsAssumption == SHUTDOWN \notin Events

Times == 0 .. MaxUptime

TypeOK ==
  /\ plugin \in {"created", "configured", "serving", "joining", "destroyed"}
  /\ uptime \in Times /\ synchronised \in BOOLEAN /\ sysTime \in BOOLEAN
  /\ assumed \in BOOLEAN
  /\ backend \in BOOLEAN
  /\ DOMAIN happened \subseteq Events /\ \A e \in DOMAIN happened : happened[e] \in Times
  /\ mActionQueue \in Seq(Events \cup {SHUTDOWN})
  /\ mEventQueue \in Seq({e \in Events : Given[e] # "epoch"})
  /\ mSysTimeValid \in BOOLEAN
  /\ loop \in {"wait", "late", "handle", "other", "populate", "exited"}
  /\ action \in Seq(Events \cup {SHUTDOWN})
  /\ loop = "handle" <=> action # <<>>
  /\ handled \subseteq DOMAIN happened
  /\ DOMAIN received \subseteq handled

\* The constructor starts ActionLoop.
Init ==
  /\ plugin = "created"
  /\ uptime = 0 /\ synchronised = FALSE /\ sysTime = FALSE /\ assumed = FALSE
  /\ backend = FALSE
  /\ happened = [e \in {} |-> 0]
  /\ mActionQueue = <<>> /\ mEventQueue = <<>> /\ mSysTimeValid = FALSE
  /\ loop = "wait" /\ action = <<>>
  /\ handled = {} /\ received = [e \in {} |-> 0]

------------------------------------------------------------------------------
(***************************************************************************)
(* The environment: time passes, the clock is set, SystemTime says so.     *)
(***************************************************************************)

Tick ==
  /\ uptime < MaxUptime
  /\ uptime' = uptime + 1
  /\ UNCHANGED <<plugin, synchronised, sysTime, assumed, backend, happened, queueVars,
                 mSysTimeValid, handled, received>>

Synchronise ==
  /\ ~synchronised
  /\ synchronised' = TRUE
  /\ UNCHANGED <<plugin, uptime, sysTime, assumed, backend, happened, queueVars, mSysTimeValid,
                 handled, received>>

\* SystemTime reports a synchronised clock, or assumes one when the System plugin does
\* not answer; it takes it back when the quality is stale or the zone not final any more.
SystemTimeChanges ==
  /\ sysTime' = ~sysTime /\ assumed' = (assumed \/ (~sysTime /\ ~synchronised))
  /\ UNCHANGED <<plugin, uptime, synchronised, backend, happened, queueVars,
                 mSysTimeValid, handled, received>>

------------------------------------------------------------------------------
(***************************************************************************)
(* The plugin: Configure, SendEvent, the destructor.                       *)
(***************************************************************************)

\* Configure creates SystemTime and loads the backend, which may fail; the
\* JSON-RPC methods are registered after it, whatever it returns.
Configure ==
  /\ plugin = "created"
  /\ plugin' = "configured"
  /\ backend' \in BOOLEAN
  /\ UNCHANGED <<timeVars, happened, queueVars, mSysTimeValid, handled, received>>

Register ==
  /\ plugin = "configured"
  /\ plugin' = "serving"
  /\ UNCHANGED <<timeVars, backend, happened, queueVars, mSysTimeValid, handled, received>>

\* SendEvent of a complete event (one that lacks a name, source, source version
\* or payload is refused, and nothing changes): with no time at all it gets the
\* current uptime; one that comes with an uptime happened then, at or before
\* the present.
SendEvent(e, up) ==
  /\ plugin = "serving"
  /\ e \notin DOMAIN happened
  /\ up <= uptime /\ (Given[e] = "none" => up = uptime)
  /\ happened' = [f \in DOMAIN happened \cup {e} |-> IF f = e THEN up ELSE happened[f]]
  /\ mActionQueue' = Append(mActionQueue, e)
  /\ UNCHANGED <<plugin, timeVars, backend, mEventQueue, mSysTimeValid, loop, action,
                 handled, received>>

\* Mutant of Destroy: the shutdown overtakes the queued events.
DestroyAtOnce ==
  /\ plugin = "serving"
  /\ plugin' = "joining"
  /\ mActionQueue' = <<SHUTDOWN>> \o mActionQueue
  /\ UNCHANGED <<timeVars, backend, happened, mEventQueue, mSysTimeValid, loop, action,
                 handled, received>>

\* Unregister, then the destructor up to its join.
Destroy ==
  /\ plugin = "serving"
  /\ plugin' = "joining"
  /\ mActionQueue' = Append(mActionQueue, SHUTDOWN)
  /\ UNCHANGED <<timeVars, backend, happened, mEventQueue, mSysTimeValid, loop, action,
                 handled, received>>

Joined ==
  /\ plugin = "joining" /\ loop = "exited"
  /\ plugin' = "destroyed"
  /\ UNCHANGED <<timeVars, backend, happened, queueVars, mSysTimeValid, handled, received>>

------------------------------------------------------------------------------
(***************************************************************************)
(* ActionLoop.                                                             *)
(***************************************************************************)

\* The system clock.
GetCurrentTimestampInMs == IF synchronised THEN Boot + uptime ELSE uptime

ConvertUptimeToTimestampInMs(up) ==
  GetCurrentTimestampInMs - (IF uptime > up THEN uptime - up ELSE 0)

\* Pass event e on, with the caller's epoch timestamp or a computed one; with
\* no backend it is dropped.
SendEventToBackend(e) ==
  /\ handled' = handled \cup {e}
  /\ received' = IF backend
                 THEN [f \in DOMAIN received \cup {e} |->
                         IF f # e THEN received[f]
                         ELSE IF Given[e] = "epoch" THEN Boot + happened[e]
                         ELSE ConvertUptimeToTimestampInMs(happened[e])]
                 ELSE received

\* Under mQueueMutex: take an action, if there is one.
TakeAction ==
  /\ loop = "wait" /\ mActionQueue # <<>>
  /\ action' = <<Head(mActionQueue)>> /\ mActionQueue' = Tail(mActionQueue)
  /\ loop' = "handle"
  /\ UNCHANGED <<plugin, timeVars, backend, happened, mEventQueue, mSysTimeValid,
                 handled, received>>

\* While the time is not known to be valid, a wait for an action ends after 3 s.
WaitTimesOut ==
  /\ loop = "wait" /\ mActionQueue = <<>> /\ ~mSysTimeValid
  /\ loop' = "late"
  /\ UNCHANGED <<plugin, timeVars, backend, happened, mActionQueue, mEventQueue, action,
                 mSysTimeValid, handled, received>>

\* Another event that comes with its time ends the wait, is passed on, and a wait of 3 s
\* begins.  There may be any number of them.
TakeOther ==
  /\ plugin = "serving" /\ loop = "wait" /\ mActionQueue = <<>>
  /\ loop' = "other"
  /\ UNCHANGED <<plugin, timeVars, backend, happened, mActionQueue, mEventQueue, action,
                 mSysTimeValid, handled, received>>

HandleOther ==
  /\ loop = "other" /\ loop' = "wait"
  /\ UNCHANGED <<plugin, timeVars, backend, happened, mActionQueue, mEventQueue, action,
                 mSysTimeValid, handled, received>>

\* Nothing was queued then, whatever has been since: ask SystemTime, once it exists.
PopulateTimeInfo ==
  /\ loop = "late"
  /\ mSysTimeValid' = (plugin # "created" /\ sysTime)
  /\ loop' = IF mSysTimeValid' THEN "populate" ELSE "wait"
  /\ UNCHANGED <<plugin, timeVars, backend, happened, mActionQueue, mEventQueue, action,
                 handled, received>>

\* Mutant of SendQueuedEvents: one event a time, and back to the actions.
SendOneQueuedEvent ==
  /\ loop = "populate"
  /\ IF mEventQueue = <<>>
     THEN UNCHANGED <<mEventQueue, handled, received>>
     ELSE /\ SendEventToBackend(Head(mEventQueue))
          /\ mEventQueue' = Tail(mEventQueue)
  /\ loop' = "wait"
  /\ UNCHANGED <<plugin, timeVars, backend, happened, mActionQueue, mSysTimeValid, action>>

\* Then the waiting events are sent, one after the other.
SendQueuedEvents ==
  /\ loop = "populate"
  /\ \/ /\ mEventQueue # <<>>
        /\ SendEventToBackend(Head(mEventQueue))
        /\ mEventQueue' = Tail(mEventQueue)
        /\ UNCHANGED loop
     \/ /\ mEventQueue = <<>>
        /\ loop' = "wait"
        /\ UNCHANGED <<mEventQueue, handled, received>>
  /\ UNCHANGED <<plugin, timeVars, backend, happened, mActionQueue, mSysTimeValid, action>>

\* Mutant of HandleEvent: whether the time is valid is not asked.
HandleEventAtOnce ==
  /\ loop = "handle" /\ action # <<SHUTDOWN>>
  /\ SendEventToBackend(action[1])
  /\ loop' = "wait" /\ action' = <<>>
  /\ UNCHANGED <<plugin, timeVars, backend, happened, mActionQueue, mEventQueue, mSysTimeValid>>

\* ACTION_TYPE_SEND_EVENT: pass the event on, or keep it for later.
HandleEvent ==
  /\ loop = "handle" /\ action # <<SHUTDOWN>>
  /\ \/ /\ mSysTimeValid \/ Given[action[1]] = "epoch"
        /\ SendEventToBackend(action[1])
        /\ UNCHANGED mEventQueue
     \/ /\ ~mSysTimeValid /\ Given[action[1]] # "epoch"
        /\ mEventQueue' = Append(mEventQueue, action[1])
        /\ UNCHANGED <<handled, received>>
  /\ loop' = "wait" /\ action' = <<>>
  /\ UNCHANGED <<plugin, timeVars, backend, happened, mActionQueue, mSysTimeValid>>

\* ACTION_TYPE_SHUTDOWN: the thread ends; events that still wait are dropped.
HandleShutdown ==
  /\ loop = "handle" /\ action = <<SHUTDOWN>>
  /\ loop' = "exited" /\ action' = <<>>
  /\ UNCHANGED <<plugin, timeVars, backend, happened, mActionQueue, mEventQueue,
                 mSysTimeValid, handled, received>>

ActionLoop ==
  TakeAction \/ WaitTimesOut \/ HandleOther \/ PopulateTimeInfo \/ SendQueuedEvents \/ HandleEvent \/ HandleShutdown

------------------------------------------------------------------------------

Next ==
  \/ Tick \/ Synchronise \/ SystemTimeChanges
  \/ Configure \/ Register \/ Destroy \/ Joined
  \/ \E e \in Events, up \in Times : SendEvent(e, up)
  \/ ActionLoop \/ TakeOther

Spec == Init /\ [][Next]_vars

------------------------------------------------------------------------------
(***************************************************************************)
(* Properties.                                                             *)
(***************************************************************************)

HasEpoch(e) == Given[e] = "epoch"

\* The actions that are not done, after the events that wait for the system time.
Actions == mEventQueue \o action \o mActionQueue

\* The accepted events that have not left ActionLoop, oldest first: the actions but the
\* shutdown, which is the last one.
EventsIn(s) == SubSeq(s, 1, IF s # <<>> /\ s[Len(s)] = SHUTDOWN THEN Len(s) - 1 ELSE Len(s))
Unhandled == EventsIn(Actions)

Delivery == INSTANCE EventDelivery
  WITH WithEpoch <- {e \in Events : HasEpoch(e)}, pending <- Unhandled, passedOn <- handled

\* Analytics implements EventDelivery: no event is lost on the way through the
\* two queues, passed on twice, or overtaken by a younger one of its class.
DeliversInOrder == Delivery!Spec

\* The backend gets every event with the time at which it happened, although
\* the clock is set between the event and its conversion: uptimes are
\* converted only when the clock is right.  Only if SystemTime assumed an unset clock to
\* be right may an event that came without an epoch time get that clock's time for it.
TimesAreTrue ==
  \A e \in DOMAIN received :
    \/ received[e] = Boot + happened[e]
    \/ assumed /\ ~HasEpoch(e) /\ received[e] = happened[e]

\* Nothing accepted is dropped by the destructor but events that wait for a
\* time that was never valid.
NothingLeftBehind ==
  loop = "exited" => /\ mActionQueue = <<>>
                     /\ \A e \in DOMAIN happened \ handled : ~mSysTimeValid /\ ~HasEpoch(e)

\* No event is lost, doubled or forgotten by a shutdown, and the variables have their
\* types.
EventsAccounted == TypeOK /\ NothingLeftBehind

\* Once the system time is and stays valid, every accepted event leaves
\* ActionLoop, if the plugin lives on: the events that waited for the time are
\* not forgotten.  But the look at the time waits for 3 s without an event: other
\* events that come more often keep them waiting, so these must come to an end.
EventsLeave ==
  <>[](sysTime /\ plugin = "serving" /\ loop # "other") => <>[](handled = DOMAIN happened)

==============================================================================
