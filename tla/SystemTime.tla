------------------------------ MODULE SystemTime ------------------------------
(***************************************************************************)
(* Analytics' view of the system time: whether the time is set and which   *)
(* time zone is in force.                                                  *)
(*                                                                         *)
(* SystemTime learns both twice over: by asking the System plugin once,    *)
(* and by the notifications it registers for.  Notifications arrive on the *)
(* System plugin's thread and are only queued; one event loop asks,        *)
(* applies the answers and applies the notifications, so an answer may be  *)
(* older than a notification that is queued behind it, and the other way   *)
(* round.                                                                  *)
(***************************************************************************)
EXTENDS Naturals, Sequences

CONSTANTS
  Zones,          \* time zone names; the empty string is not one
  Accuracies,     \* accuracy strings of the System plugin, "FINAL" among them
  MaxChanges      \* bound on the changes of the System plugin's state

NoZone == ""

VARIABLES
  system,     \* the System plugin's time quality, time zone and accuracy
  changes,    \* how often it changed
  outbox,     \* changes the System plugin has yet to notify
  registered, \* _systemServicesNotification is registered
  mQueue,     \* events for the event loop
  loop,       \* the event loop's program counter
  answer,     \* what the System plugin answered to the running query, <<>> if nothing
  mIsSystemTimeAvailable,
  mTimeZone,
  mTimeZoneAccuracyString,
  mTransitionMap, \* the zone whose transitions are cached, NoZone if none are
  object,     \* the SystemTime object: "alive", "joining", "destroyed"
  failed      \* history: the System plugin was absent or refused to answer

systemVars == <<system, changes, outbox>>
timeVars == <<mIsSystemTimeAvailable, mTimeZone, mTimeZoneAccuracyString, mTransitionMap>>
vars == <<systemVars, registered, mQueue, loop, answer, timeVars, object, failed>>

Qualities == {"Stale", "Good", "Secure"}

States == [quality : Qualities, zone : Zones, accuracy : Accuracies]

\* A notification carries the part of the state that changed.
LoopEvents == [type : {"EVENT_INITIALISE", "EVENT_SHUTDOWN"}]
            \cup [type : {"EVENT_TIME_STATUS_CHANGED"}, quality : Qualities]
            \cup [type : {"EVENT_TIME_ZONE_CHANGED"}, zone : Zones, accuracy : Accuracies]

TypeOK ==
  /\ system \in States
  /\ changes \in 0 .. MaxChanges
  /\ outbox \in Seq(LoopEvents) /\ mQueue \in Seq(LoopEvents)
  /\ registered \in BOOLEAN
  /\ loop \in {"wait", "register", "askStatus", "status", "askZone", "zone", "exited"}
  /\ answer \in {<<>>} \cup {<<s>> : s \in States}
  /\ mIsSystemTimeAvailable \in BOOLEAN
  /\ mTimeZone \in Zones \cup {NoZone} /\ mTransitionMap \in Zones \cup {NoZone}
  /\ mTimeZoneAccuracyString \in Accuracies \cup {""}
  /\ object \in {"alive", "joining", "destroyed"} /\ failed \in BOOLEAN
  /\ loop = "exited" => object # "alive"

\* The constructor starts the event loop and queues EVENT_INITIALISE.
Init ==
  /\ system \in States /\ changes = 0 /\ outbox = <<>>
  /\ registered = FALSE
  /\ mQueue = <<[type |-> "EVENT_INITIALISE"]>>
  /\ loop = "wait" /\ answer = <<>>
  /\ mIsSystemTimeAvailable = FALSE
  /\ mTimeZone = NoZone /\ mTimeZoneAccuracyString = "" /\ mTransitionMap = NoZone
  /\ object = "alive" /\ failed = FALSE

------------------------------------------------------------------------------
(***************************************************************************)
(* The System plugin, outside this repository: it changes its state and    *)
(* then notifies whoever is registered, in order.                          *)
(***************************************************************************)

\* Record a new state, and what has to be said about it.
Change(new, event) ==
  /\ changes < MaxChanges
  /\ new # system
  /\ system' = new /\ changes' = changes + 1
  /\ outbox' = Append(outbox, event)
  /\ UNCHANGED <<registered, mQueue, loop, answer, timeVars, object, failed>>

ChangeQuality(q) ==
  Change([system EXCEPT !.quality = q], [type |-> "EVENT_TIME_STATUS_CHANGED", quality |-> q])

ChangeZone(z, a) ==
  Change([system EXCEPT !.zone = z, !.accuracy = a],
         [type |-> "EVENT_TIME_ZONE_CHANGED", zone |-> z, accuracy |-> a])

\* onTimeStatusChanged and onTimeZoneDSTChanged: the event is queued.
Notify ==
  /\ outbox # <<>>
  /\ outbox' = Tail(outbox)
  /\ mQueue' = IF registered THEN Append(mQueue, Head(outbox)) ELSE mQueue
  /\ UNCHANGED <<system, changes, registered, loop, answer, timeVars, object, failed>>

------------------------------------------------------------------------------
(***************************************************************************)
(* The event loop.                                                         *)
(***************************************************************************)

IsTimeOK(q) == q \in {"Good", "Secure"}

\* Under mLock: only a FINAL zone is kept, and the cached transitions of
\* another zone are dropped.
ApplyTimeZone(z, a) ==
  /\ mTimeZoneAccuracyString' = a
  /\ mTimeZone' = IF a = "FINAL" THEN z ELSE NoZone
  /\ mTransitionMap' = IF a = "FINAL" /\ mTimeZone = z THEN mTransitionMap ELSE NoZone
  /\ UNCHANGED mIsSystemTimeAvailable

ApplyTimeStatus(ok) ==
  /\ mIsSystemTimeAvailable' = ok
  /\ UNCHANGED <<mTimeZone, mTimeZoneAccuracyString, mTransitionMap>>

\* The loop takes the front event and handles it; EVENT_INITIALISE goes on
\* below.
EventLoop ==
  /\ loop = "wait" /\ mQueue # <<>>
  /\ mQueue' = Tail(mQueue)
  /\ LET event == Head(mQueue) IN
       \/ /\ event.type = "EVENT_INITIALISE"
          /\ loop' = "register"
          /\ UNCHANGED timeVars
       \/ /\ event.type = "EVENT_TIME_STATUS_CHANGED"
          /\ ApplyTimeStatus(IsTimeOK(event.quality))
          /\ UNCHANGED loop
       \/ /\ event.type = "EVENT_TIME_ZONE_CHANGED"
          /\ ApplyTimeZone(event.zone, event.accuracy)
          /\ UNCHANGED loop
       \/ /\ event.type = "EVENT_SHUTDOWN"
          /\ loop' = "exited"
          /\ UNCHANGED timeVars
  /\ UNCHANGED <<systemVars, registered, answer, object, failed>>

\* Mutant of InitializeSystemServices: it runs after the two queries.
RegisterLast ==
  \/ /\ loop = "register"
     /\ loop' = "askStatus"
     /\ UNCHANGED <<systemVars, registered, mQueue, answer, timeVars, object, failed>>
  \/ /\ loop = "wait" /\ mTimeZoneAccuracyString # "" /\ ~registered
     /\ registered' = TRUE
     /\ UNCHANGED <<systemVars, mQueue, loop, answer, timeVars, object, failed>>

\* Register for notifications; a refusal is only logged.
InitializeSystemServices ==
  /\ loop = "register"
  /\ loop' = "askStatus"
  /\ registered' \in BOOLEAN
  /\ failed' = (failed \/ ~registered')
  /\ UNCHANGED <<systemVars, mQueue, answer, timeVars, object>>

\* GetTimeStatus or GetTimeZoneDST returns the System plugin's state, or fails.
Ask(from, to) ==
  /\ loop = from
  /\ loop' = to
  /\ answer' \in {<<system>>, <<>>}
  /\ failed' = (failed \/ answer' = <<>>)
  /\ UNCHANGED <<systemVars, registered, mQueue, timeVars, object>>

\* Without an answer the time is assumed to be OK.
UpdateTimeStatus ==
  /\ loop = "status"
  /\ loop' = "askZone"
  /\ ApplyTimeStatus(answer = <<>> \/ IsTimeOK(answer[1].quality))
  /\ UNCHANGED <<systemVars, registered, mQueue, answer, object, failed>>

\* Without an answer the zone stays as it is.
UpdateTimeZone ==
  /\ loop = "zone"
  /\ loop' = "wait" /\ answer' = <<>>
  /\ IF answer = <<>> THEN UNCHANGED timeVars ELSE ApplyTimeZone(answer[1].zone, answer[1].accuracy)
  /\ UNCHANGED <<systemVars, registered, mQueue, object, failed>>

LoopStep ==
  \/ EventLoop \/ InitializeSystemServices
  \/ Ask("askStatus", "status") \/ UpdateTimeStatus
  \/ Ask("askZone", "zone") \/ UpdateTimeZone

------------------------------------------------------------------------------

\* GetTimeZoneOffset, on the thread of Analytics or of a backend, under mLock:
\* the transitions are cached when there is a time and a zone to look up.
\* "Universal" needs no transitions.  (A failing zdump leaves the cache empty,
\* which changes nothing here.)
GetTimeZoneOffset ==
  /\ object = "alive"
  /\ mIsSystemTimeAvailable /\ mTimeZone \notin {NoZone, "Universal"}
  /\ mTransitionMap = NoZone
  /\ mTransitionMap' = mTimeZone
  /\ UNCHANGED <<systemVars, registered, mQueue, loop, answer, mIsSystemTimeAvailable,
                 mTimeZone, mTimeZoneAccuracyString, object, failed>>

\* Mutant of Destroy: the loop is not told to stop.
DestroySilently ==
  /\ object = "alive"
  /\ object' = "joining"
  /\ UNCHANGED <<systemVars, registered, mQueue, loop, answer, timeVars, failed>>

\* The destructor queues EVENT_SHUTDOWN, joins the loop, and unregisters if
\* the System plugin is still there.
Destroy ==
  /\ object = "alive"
  /\ object' = "joining"
  /\ mQueue' = Append(mQueue, [type |-> "EVENT_SHUTDOWN"])
  /\ UNCHANGED <<systemVars, registered, loop, answer, timeVars, failed>>

Joined ==
  /\ object = "joining" /\ loop = "exited"
  /\ object' = "destroyed"
  /\ registered' \in {registered, FALSE}
  /\ UNCHANGED <<systemVars, mQueue, loop, answer, timeVars, failed>>

Next ==
  \/ \E q \in Qualities : ChangeQuality(q)
  \/ \E z \in Zones, a \in Accuracies : ChangeZone(z, a)
  \/ Notify \/ LoopStep \/ GetTimeZoneOffset
  \/ Destroy \/ Joined

Spec == Init /\ [][Next]_vars

------------------------------------------------------------------------------
(***************************************************************************)
(* Properties.                                                             *)
(***************************************************************************)

\* The zone and the accuracy that SystemTime should arrive at.
FinalZone == IF system.accuracy = "FINAL" THEN system.zone ELSE NoZone

\* Once every notification is delivered and applied, SystemTime agrees with
\* the System plugin, however the two queries and the notifications
\* interleaved: the stale ones among them were overwritten, never the other
\* way round.  Stated while the System plugin answers: a query that fails
\* leaves the time assumed to be OK.
Agrees ==
  ~failed /\ registered /\ outbox = <<>> /\ mQueue = <<>> /\ loop = "wait" =>
    /\ mIsSystemTimeAvailable = IsTimeOK(system.quality)
    /\ mTimeZone = FinalZone
    /\ mTimeZoneAccuracyString = system.accuracy

\* The cached transitions are those of the zone in force, or there are none:
\* PopulateTimeZoneTransitionMap fills only an empty cache, so a cache of
\* another zone would stay wrong for good.
CacheIsOfZone == mTransitionMap \in {NoZone, mTimeZone}

\* The destructor returns: the event loop reaches EVENT_SHUTDOWN whatever is
\* queued before it.
DestructorReturns == object = "joining" ~> object = "destroyed"

==============================================================================
