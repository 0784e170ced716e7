----------------------------- MODULE MCAnalytics -----------------------------
(***************************************************************************)
(* The parts of the Analytics plugin in one small instance: the events on  *)
(* their way through ActionLoop (Analytics), the system time (SystemTime), *)
(* the store (LocalStore), and its two pure functions (MCFunctions).  A    *)
(* behaviour is one of a single part, the one in focus; the others stay as *)
(* they are at first.                                                      *)
(***************************************************************************)
EXTENDS Analytics

CONSTANTS
  Zones, Accuracies, MaxChanges,
  TimeLine, Year1970, Year2038, Offsets, MaxTransitions,
  TableLimit, MaxEvents, MaxStops

VARIABLES
  focus, \* the part
  system, changes, outbox, registered, mQueue, tloop, answer, mIsSystemTimeAvailable, mTimeZone,
  mTimeZoneAccuracyString, mTransitionMap, object, failed,
  mDataBaseHandle, table, lastId, created, poster, range, batch, added, accepted, taken, crowded, stops,
  function, input, output

SY == INSTANCE SystemTime WITH loop <- tloop
LS == INSTANCE LocalStore WITH backend <- poster
FN == INSTANCE MCFunctions WITH Times <- TimeLine

systemVars ==
  <<system, changes, outbox, registered, mQueue, tloop, answer, mIsSystemTimeAvailable, mTimeZone,
    mTimeZoneAccuracyString, mTransitionMap, object, failed>>
storeVars ==
  <<mDataBaseHandle, table, lastId, created, poster, range, batch, added, accepted, taken, crowded, stops>>
functionVars == <<function, input, output>>

\* Two events that come with no time, one with an uptime, one with an epoch.
MCGiven == [e \in Events |-> CASE e \in {"e1", "e2"} -> "none" [] e = "e3" -> "uptime" [] OTHER -> "epoch"]
MCZones == {"Universal", "Europe/Warsaw", "Europe/Berlin"}
MCTimeLine == 1 .. 12

ASSUME ZonesAssumption == Zones # {} /\ "" \notin Zones /\ "FINAL" \in Accuracies
ASSUME TimeLineAssumption == Year1970 \in TimeLine /\ Year2038 \in TimeLine /\ Year1970 < Year2038

PartsInit ==
  /\ focus \in {"events", "time", "store", "function"}
  /\ Init /\ LS!Init
  /\ SY!Init
  /\ focus # "time" => system = [quality |-> "Stale", zone |-> "Universal", accuracy |-> "FINAL"]
  /\ IF focus = "function" THEN FN!Init ELSE function = "none" /\ input = <<>> /\ output = <<>>

PartsNext ==
  \/ focus = "events" /\ Next /\ UNCHANGED <<focus, systemVars, storeVars, functionVars>>
  \/ focus = "time" /\ SY!Next /\ UNCHANGED <<focus, vars, storeVars, functionVars>>
  \/ focus = "store" /\ LS!Next /\ UNCHANGED <<focus, vars, systemVars, functionVars>>
  \/ focus = "function" /\ FN!Next /\ UNCHANGED <<focus, vars, systemVars, storeVars>>

\* ActionLoop and the event loop of SystemTime are threads of their own and
\* their waits time out; the threads that destroy the objects are scheduled too.
PartsSpec ==
  /\ PartsInit /\ [][PartsNext]_<<focus, vars, systemVars, storeVars, functionVars>>
  /\ WF_vars(focus = "events" /\ ActionLoop) /\ WF_vars(focus = "events" /\ Joined)
  /\ WF_systemVars(focus = "time" /\ SY!LoopStep) /\ WF_systemVars(focus = "time" /\ SY!Joined)

------------------------------------------------------------------------------
\* SystemTime ends up with the System plugin's state, and its transition map and
\* cached offset are of the zone it has.  Its variables have their types.
Agrees == SY!TypeOK /\ SY!Agrees /\ SY!CacheIsOfZone

\* A stored event is taken for one batch only, and the store is empty after a
\* removal that succeeded.  The variables of LocalStore have their types.
TakenOnce == LS!TypeOK /\ LS!TakenOnce /\ LS!EmptyAfterRemoval

\* ParseTimeZone finds the offset in force and MapEventNameIfNeeded the name the
\* events map means.
FunctionsMatch == FN!OffsetIsInForce /\ FN!NameIsMeant

\* The destructor of SystemTime gets past its join.
DestructorReturns == SY!DestructorReturns
==============================================================================
