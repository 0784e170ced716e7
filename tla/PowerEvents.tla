------------------------------ MODULE PowerEvents ------------------------------
(***************************************************************************)
(* How RDKShell follows the device's power state.  It subscribes to the    *)
(* System plugin's event from three places: a thread of its own when that  *)
(* plugin is activated, a timer until somebody has subscribed, and calls   *)
(* of launchFactoryApp.  They share the connection and a flag, without a   *)
(* lock (gSubscribeMutex is taken by the first only).  It hides the        *)
(* resident application when the device sleeps (by leaving the factory     *)
(* application) and shows it when the device wakes; the thread looks at    *)
(* the state once it has subscribed.  The System plugin, its event and the *)
(* worker threads that execute RDKShell's own requests, which nobody waits *)
(* for, are external.                                                      *)
(***************************************************************************)
EXTENDS Naturals, Sequences, FiniteSets

CONSTANTS
  MaxChanges,  \* changes of the power state
  MaxKeys      \* presses of the power key

Callers == {"thread", "timer", "factory"}  \* of subscribeForSystemEvent

VARIABLES
  power,       \* "ON" or "STANDBY"
  system,      \* the System plugin is active
  at,          \* where each caller is: "idle", inside, or "done"; the thread also reads and shows
  m_timer,     \* the timer is active
  gSystemServiceConnection,  \* "none", "idle", or "listening": the plugin sends events over it
  gSystemServiceEventsSubscribed,
  down,        \* a caller used a connection that another had dropped
  events,      \* events the plugin has sent, with the state before, not yet handled
  requests,    \* requests to RDKShell itself that are not executed yet
  factory,     \* the factory application runs
  visible,     \* the resident application is visible
  key,         \* the power key's handler: "none", or the state it has read
  keys, changes,
  lost,        \* history: a subscription failed, or its connection was replaced, and nobody
               \* has subscribed since
  unseen,      \* history: for that reason RDKShell has not seen the last change
  praced       \* history: a request to show the application was made before the
               \* request to hide it was executed

link == <<gSystemServiceConnection, gSystemServiceEventsSubscribed, down>>
vars == <<power, system, at, m_timer, link, events, requests, factory, visible, key, keys,
          changes, lost, unseen, praced>>

\* Events and requests of their types; who is listened to is subscribed to.
TypeOK ==
  /\ power \in {"ON", "STANDBY"} /\ key \in {"none", "ON", "STANDBY"}
  /\ at \in [Callers -> {"idle", "look", "connect", "subscribe", "read", "show", "done"}]
  /\ gSystemServiceConnection \in {"none", "idle", "listening"}
  /\ gSystemServiceConnection = "listening" => gSystemServiceEventsSubscribed
  /\ {system, m_timer, gSystemServiceEventsSubscribed, down, factory, visible, lost, unseen,
    praced} \subseteq BOOLEAN
  /\ events \in Seq({"ON", "STANDBY"}) /\ requests \subseteq {"show", "launchResidentApp"}
  /\ changes \in 0 .. MaxChanges /\ keys \in 0 .. MaxKeys

\* The plugin may have been active before RDKShell was.
Init ==
  /\ power \in {"ON", "STANDBY"} /\ system \in BOOLEAN
  /\ at = [c \in Callers |-> "idle"] /\ m_timer = TRUE
  /\ gSystemServiceConnection = "none" /\ gSystemServiceEventsSubscribed = FALSE /\ down = FALSE
  /\ events = <<>> /\ requests = {} /\ factory \in BOOLEAN /\ visible = (power = "ON" /\ ~factory)
  /\ key = "none" /\ keys = 0 /\ changes = 0
  /\ lost = FALSE /\ unseen = FALSE /\ praced = FALSE

Ask(r) ==
  /\ requests' = requests \cup {r}
  /\ praced' = (praced \/ (r = "show" /\ "launchResidentApp" \in requests))

\* The power state changes, and the plugin tells whom it knows.  If the subscription
\* is lost nobody sees it, unless the thread's look is still to come.
Change(to) ==
  /\ to # power /\ changes < MaxChanges /\ changes' = changes + 1 /\ power' = to
  /\ IF gSystemServiceConnection = "listening"
     THEN events' = Append(events, to) /\ unseen' = FALSE
     ELSE UNCHANGED events /\ unseen' = (unseen \/ lost)

PowerChanges ==
  /\ \E to \in {"ON", "STANDBY"} : Change(to)
  /\ UNCHANGED <<system, at, m_timer, link, requests, factory, visible, key, keys, lost,
                 praced>>

Goto(c, pc) == at' = [at EXCEPT ![c] = pc]

\* handleActivated for the System plugin starts the thread.
HandleActivated ==
  /\ at["thread"] = "idle" /\ system' = TRUE /\ Goto("thread", "look")
  /\ UNCHANGED <<power, m_timer, link, events, requests, factory, visible, key, keys, changes,
                 lost, unseen, praced>>

\* The timer stops when it finds that somebody has subscribed.
onTimer ==
  /\ m_timer /\ at["timer"] = "idle"
  /\ IF gSystemServiceEventsSubscribed THEN m_timer' = FALSE /\ UNCHANGED at
     ELSE Goto("timer", "look") /\ UNCHANGED m_timer
  /\ UNCHANGED <<power, system, link, events, requests, factory, visible, key, keys, changes,
                 lost, unseen, praced>>

\* A call of launchFactoryApp that finds nothing to launch.
launchFactoryApp ==
  /\ at["factory"] = "idle" /\ ~factory /\ Goto("factory", "look")
  /\ UNCHANGED <<power, system, m_timer, link, events, requests, factory, visible, key, keys,
                 changes, lost, unseen, praced>>

\* The caller's way on: the thread looks at the state, whatever came of it; the timer
\* goes on unless its own subscription succeeded.
Return(c, succeeded) ==
  /\ Goto(c, IF c = "thread" THEN "read" ELSE IF c = "timer" THEN "idle" ELSE "done")
  /\ m_timer' = (m_timer /\ ~(c = "timer" /\ succeeded))

\* With a connection: subscribe, unless it is done.
Proceed(c) ==
  IF gSystemServiceEventsSubscribed THEN Return(c, FALSE) ELSE Goto(c, "subscribe") /\ UNCHANGED m_timer

\* subscribeForSystemEvent: look for a connection, or for the plugin to connect to.
Look(c) ==
  /\ at[c] = "look"
  /\ IF gSystemServiceConnection # "none" THEN Proceed(c)
     ELSE IF system THEN Goto(c, "connect") /\ UNCHANGED m_timer
     ELSE Return(c, FALSE)
  /\ UNCHANGED <<power, system, link, events, requests, factory, visible, key, keys, changes,
                 lost, unseen, praced>>

\* The connection is assigned or reset.  The one that was there is gone: nobody
\* listens any more, events that were under way may be lost, and a caller that
\* is subscribing over it may use what is no more.
Replace(c, new) ==
  /\ gSystemServiceConnection' = new
  /\ events' \in {events, IF gSystemServiceConnection = "listening" THEN <<>> ELSE events}
  /\ lost' = (lost \/ new = "none" \/ gSystemServiceConnection = "listening")
  /\ unseen' = (unseen \/ events' # events)
  /\ down' \in {FALSE, \E d \in Callers \ {c} : at[d] = "subscribe" /\ gSystemServiceConnection # "none"}

Connect(c) ==
  /\ at[c] = "connect" /\ Replace(c, "idle") /\ Proceed(c)
  /\ UNCHANGED <<power, system, gSystemServiceEventsSubscribed, requests, factory, visible, key,
                 keys, changes, praced>>

\* The subscription: it succeeds, or it fails and the connection is dropped, or there
\* is no connection any more.
Subscribe(c) ==
  /\ at[c] = "subscribe"
  /\ \/ /\ gSystemServiceConnection # "none" /\ Return(c, TRUE)
        /\ gSystemServiceConnection' = "listening" /\ gSystemServiceEventsSubscribed' = TRUE
        /\ lost' = FALSE /\ UNCHANGED <<down, events, unseen>>
     \/ /\ gSystemServiceConnection # "none" /\ Return(c, FALSE)
        /\ Replace(c, "none") /\ UNCHANGED gSystemServiceEventsSubscribed
     \/ /\ gSystemServiceConnection = "none" /\ down' = TRUE
        /\ UNCHANGED <<at, m_timer, gSystemServiceConnection, gSystemServiceEventsSubscribed, events,
                       lost, unseen>>
  /\ UNCHANGED <<power, system, requests, factory, visible, key, keys, changes, praced>>

\* Mutant of ReadPower: a device that is on is taken to be visible.
ReadPowerOnly ==
  /\ at["thread"] = "read" /\ Goto("thread", "done") /\ unseen' = (unseen /\ events # <<>>)
  /\ UNCHANGED <<power, system, m_timer, link, events, requests, factory, visible, key, keys,
                 changes, lost, praced>>

\* The thread reads the state: it may have changed before the subscription.  The call
\* may fail; and events that are handled later may be older than what it reads.
ReadPower ==
  /\ at["thread"] = "read"
  /\ \/ unseen' = (unseen /\ events # <<>>)
        /\ Goto("thread", IF power = "ON" THEN "show" ELSE "done")
     \/ unseen' = TRUE /\ Goto("thread", "done")
  /\ UNCHANGED <<power, system, m_timer, link, events, requests, factory, visible, key, keys,
                 changes, lost, praced>>

ShowOn ==
  /\ at["thread"] = "show" /\ Goto("thread", "done") /\ Ask("show")
  /\ UNCHANGED <<power, system, m_timer, link, events, factory, visible, key, keys, changes, lost,
                 unseen>>

\* The event: to sleep or to wake.
pluginEventHandler ==
  /\ events # <<>> /\ events' = Tail(events)
  /\ Ask(IF Head(events) = "ON" THEN "show" ELSE "launchResidentApp")
  /\ UNCHANGED <<power, system, at, m_timer, link, factory, visible, key, keys, changes, lost, unseen>>

\* A worker executes a request, in any order.  launchResidentApp does something,
\* and hides the application, only if the factory application runs and may be left.
Execute(r) ==
  /\ r \in requests /\ requests' = requests \ {r}
  /\ \/ r = "show" /\ visible' = TRUE /\ UNCHANGED factory
     \/ r = "launchResidentApp" /\ factory' = FALSE /\ visible' = (visible /\ ~factory)
     \/ r = "launchResidentApp" /\ UNCHANGED <<factory, visible>>
  /\ UNCHANGED <<power, system, at, m_timer, link, events, key, keys, changes, lost,
                 unseen, praced>>

\* The power key: read the state, then set the other one.
onPowerKey ==
  /\ key = "none" /\ system /\ keys < MaxKeys /\ keys' = keys + 1
  /\ key' \in {"none", power}
  /\ UNCHANGED <<power, system, at, m_timer, link, events, requests, factory, visible, changes,
                 lost, unseen, praced>>

PowerKeySets ==
  /\ key # "none" /\ key' = "none"
  /\ LET to == IF key = "ON" THEN "STANDBY" ELSE "ON" IN
       Change(to) \/ ((to = power \/ changes = MaxChanges) /\ UNCHANGED <<power, events, changes, unseen>>)
  /\ UNCHANGED <<system, at, m_timer, link, requests, factory, visible, keys, lost, praced>>

Next ==
  /\ ~down
  /\ \/ PowerChanges \/ HandleActivated \/ onTimer \/ launchFactoryApp \/ ReadPower \/ ShowOn
     \/ \E c \in Callers : Look(c) \/ Connect(c) \/ Subscribe(c)
     \/ pluginEventHandler \/ onPowerKey \/ PowerKeySets
     \/ \E r \in {"show", "launchResidentApp"} : Execute(r)

------------------------------------------------------------------------------
\* When nothing is under way, a device that is on shows the resident application,
\* whether it was switched on before RDKShell subscribed, between the subscription
\* and the look at the state, or later.  Excepted are a last change that could not
\* be seen and a wake-up requested while the request to hide the application still
\* waits for a worker: the two are executed in any order.
AwakeIsShown ==
  power = "ON" /\ at["thread"] = "done" /\ events = <<>> /\ requests = {} /\ ~unseen /\ ~praced
    => visible
================================================================================
